---- MODULE Spec2Model ----
(***************************************************************************)
(* Human Design bodygraph engine: the gate partition table, the gate/line  *)
(* resolver, the activation set builder and the design-time solver, as     *)
(* state machines over exact integer arithmetic.                           *)
(*                                                                         *)
(* Longitudes are whole numbers of 1/UnitsPerDegree degree.  Every arc     *)
(* boundary of the table is a multiple of 7'30" and every line boundary a  *)
(* multiple of 25", so with 144 units per degree (25" each) the table and   *)
(* its line boundaries are exact integers.  The Python code works on IEEE   *)
(* doubles; the model is the real-number reading of the same expressions,  *)
(* except where a section says it rounds as doubles do.                    *)
(***************************************************************************)
EXTENDS Integers, Sequences, FiniteSets, TLC

VARIABLES
    GATE_RANGES,   \* original_calculation.GATE_RANGES: the list of (gate, start, end)
    lon,           \* the longitude handed to the resolver
    resolved,      \* what gate_line_from_longitude returned (or that it raised)
    eph,           \* the Ephemeris Provider at the queried Julian Day: body -> answer
    out,           \* what original_calculation.activations_for_jd returned
    activations,   \* what RawBodyGraph._activations_for_jd returned
    asked,         \* the body ids the latest call handed to swe.calc_ut, in call order
    track,         \* the Sun's motion around the birth instant, as the provider reports it
    pc,            \* find_design_jd: "idle", "loop" (in the for loop), "done" or "raised"
    target,        \* find_design_jd: target
    jd,            \* find_design_jd: jd, counted in ticks from birth_jd
    queries,       \* find_design_jd: calls of calc_lon_ut(jd, swe.SUN) made so far
    stamps,        \* two local date-times, each with the timezone name it is read in
    jds,           \* what LocalTime.jd returned for each of them (NoJd before the call)
    cacheFile,     \* the content of the file .geocode_cache.json
    calls,         \* the calls of geocode_place made so far, with what each returned
    info,          \* the BirthInfo constructed, or that its construction raised
    effects,       \* how often the BirthInfo's properties used each service
    reads,         \* the reads of the BirthInfo's properties made so far, with their values
    graphs,        \* the bodygraphs built from the BirthInfo so far, in order
    workers,       \* the bodygraph builds running side by side: worker -> its progress
    angdiff,       \* _angdiff_signed: its arguments a and b and what it returned
    relationships, \* RelationshipStore.relationships: the list of Relationship objects
    ops            \* the calls made on the RelationshipStore so far, in order

resolverVars == <<lon, resolved>>

builderVars == <<eph, out, activations, asked>>

solverVars == <<track, pc, target, jd, queries>>

timeVars == <<stamps, jds>>

\* the variables of the services around the calculation core
geoVars == <<cacheFile, calls>>

infoVars == <<info, effects, reads, graphs>>

\* the variables of the helpers beside the calculation
libVars == <<angdiff, relationships, ops>>

restVars == <<timeVars, geoVars, infoVars, workers, libVars>>

vars ==
    <<GATE_RANGES, lon, resolved, eph, out, activations, asked, track, pc, target, jd, queries,
      stamps, jds, cacheFile, calls, info, effects, reads, graphs, workers,
      angdiff, relationships, ops>>

NoJd == 0 - 1

Stamp(year, month, day, quarter, tz_name) ==
    [year |-> year, month |-> month, day |-> day, quarter |-> quarter, tz |-> tz_name]

TimeIdle ==
    /\ stamps = <<Stamp(2000, 1, 1, 0, "UTC"), Stamp(2000, 1, 1, 0, "UTC")>>
    /\ jds = <<NoJd, NoJd>>

\* the services are not in use
\* os.path.exists(cache_path) is False
NoFile == [kind |-> "no file", dict |-> <<>>]

GeoIdle ==
    /\ cacheFile = NoFile
    /\ calls = <<>>

\* no BirthInfo(...) has been evaluated
NoInfo ==
    [state |-> "none",
     date |-> [year |-> 2000, month |-> 1, day |-> 1, padded |-> TRUE],
     localtime |-> [year |-> 2000, month |-> 1, day |-> 1, quarter |-> 0],
     city |-> "", country |-> ""]

NoEffects == [geocode |-> 0, contacts |-> 0, timezone |-> 0, sun |-> 0, solver |-> 0]

InfoIdle ==
    /\ info = NoInfo
    /\ effects = NoEffects
    /\ reads = <<>>
    /\ graphs = <<>>

\* no builds run side by side
NoWorkers == <<>>

\* _angdiff_signed has not been called
NoAngdiff == [a |-> 0, b |-> 0, d |-> 0, pc |-> "idle"]

\* no helper is in use; the RelationshipStore is as constructed
LibIdle ==
    /\ angdiff = NoAngdiff
    /\ relationships = <<>>
    /\ ops = <<>>

RestIdle == TimeIdle /\ GeoIdle /\ InfoIdle /\ workers = NoWorkers /\ LibIdle

(***************************************************************************)
(* Resolution of the longitude grid                                        *)
(***************************************************************************)
Res == 2

UnitsPerDegree == 72 * Res

Full == 360 * UnitsPerDegree

Abs(x) == IF x < 0 THEN 0 - x ELSE x

(***************************************************************************)
(* Arithmetic on doubles                                                   *)
(*                                                                         *)
(* A double is modelled by a binary floating-point number counted in       *)
(* quanta, q of them to the degree: below 256 degrees every whole number   *)
(* of quanta is a double, from 256 to 512 degrees every second one, and so *)
(* on.  An operation gives its exact result rounded to the nearest double, *)
(* ties to the even significand.                                           *)
(***************************************************************************)
\* the distance between neighbouring doubles at x
RECURSIVE Ulp(_, _)
Ulp(x, q) == IF Abs(x) < 256 * q THEN 1 ELSE 2 * Ulp(Abs(x) \div 2, q)

\* the double nearest to x, round-half-to-even
RoundToDouble(x, q) ==
    LET s == Ulp(x, q)
        below == (x \div s) * s
        rest == x - below
    IN  IF 2 * rest < s THEN below
        ELSE IF 2 * rest > s THEN below + s
        ELSE IF (below \div s) % 2 = 0 THEN below ELSE below + s

IsDouble(x, q) == RoundToDouble(x, q) = x

\* C's fmod(vx, wx) for wx > 0: exact, with the sign of vx
fmod(vx, wx) == IF vx >= 0 THEN vx % wx ELSE 0 - ((0 - vx) % wx)

\* vx % wx on Python floats for wx > 0: fmod, and wx added to a negative
\* remainder
float_rem(vx, wx, q) ==
    LET mod == fmod(vx, wx)
    IN  IF mod < 0 THEN RoundToDouble(mod + wx, q) ELSE mod

\* x % 360.0 in real numbers
_norm360_exact(x) == x % Full

\* _norm360: x % 360.0 on doubles, the doubles below 256 degrees being the
\* points of the longitude grid
_norm360(x) == float_rem(x, Full, UnitsPerDegree)

(***************************************************************************)
(* The gate-by-degree table                                                *)
(***************************************************************************)
AR == 0 * UnitsPerDegree
TA == 30 * UnitsPerDegree
GE == 60 * UnitsPerDegree
CA == 90 * UnitsPerDegree
LE == 120 * UnitsPerDegree
VI == 150 * UnitsPerDegree
LI == 180 * UnitsPerDegree
SC == 210 * UnitsPerDegree
SG == 240 * UnitsPerDegree
CP == 270 * UnitsPerDegree
AQ == 300 * UnitsPerDegree
PI == 330 * UnitsPerDegree

\* _d: sign_base + deg + minutes / 60.0 + seconds / 3600.0
_d(sign_base, deg, minutes, seconds) ==
    sign_base + deg * UnitsPerDegree
      + ((minutes * 60 + seconds) * UnitsPerDegree) \div 3600

\* one _add(gate, start, end) call: the tuple appended to GATE_RANGES
Arc(gate, start, end) == <<gate, start, end>>

ARIES ==
    << Arc(25, _d(PI, 28, 15, 0), Full),
       Arc(25, 0, _d(AR, 3, 52, 30)),
       Arc(17, _d(AR, 3, 52, 30), _d(AR, 9, 30, 0)),
       Arc(21, _d(AR, 9, 30, 0), _d(AR, 15, 7, 30)),
       Arc(51, _d(AR, 15, 7, 30), _d(AR, 20, 45, 0)),
       Arc(42, _d(AR, 20, 45, 0), _d(AR, 26, 22, 30)),
       Arc(3, _d(AR, 26, 22, 30), _d(TA, 2, 0, 0)) >>

TAURUS ==
    << Arc(27, _d(TA, 2, 0, 0), _d(TA, 7, 37, 30)),
       Arc(24, _d(TA, 7, 37, 30), _d(TA, 13, 15, 0)),
       Arc(2, _d(TA, 13, 15, 0), _d(TA, 18, 52, 30)),
       Arc(23, _d(TA, 18, 52, 30), _d(TA, 24, 30, 0)),
       Arc(8, _d(TA, 24, 30, 0), _d(GE, 0, 7, 30)) >>

GEMINI ==
    << Arc(20, _d(GE, 0, 7, 30), _d(GE, 5, 45, 0)),
       Arc(16, _d(GE, 5, 45, 0), _d(GE, 11, 22, 30)),
       Arc(35, _d(GE, 11, 22, 30), _d(GE, 17, 0, 0)),
       Arc(45, _d(GE, 17, 0, 0), _d(GE, 22, 27, 30)),
       Arc(12, _d(GE, 22, 27, 30), _d(GE, 28, 15, 0)),
       Arc(15, _d(GE, 28, 15, 0), _d(CA, 3, 52, 30)) >>

CANCER ==
    << Arc(52, _d(CA, 3, 52, 30), _d(CA, 9, 30, 0)),
       Arc(39, _d(CA, 9, 30, 0), _d(CA, 15, 7, 30)),
       Arc(53, _d(CA, 15, 7, 30), _d(CA, 20, 45, 0)),
       Arc(62, _d(CA, 20, 45, 0), _d(CA, 26, 22, 30)),
       Arc(56, _d(CA, 26, 22, 30), _d(LE, 2, 0, 0)) >>

LEO ==
    << Arc(31, _d(LE, 2, 0, 0), _d(LE, 7, 37, 30)),
       Arc(33, _d(LE, 7, 37, 30), _d(LE, 13, 15, 0)),
       Arc(7, _d(LE, 13, 15, 0), _d(LE, 18, 52, 30)),
       Arc(4, _d(LE, 18, 52, 30), _d(LE, 24, 30, 0)),
       Arc(29, _d(LE, 24, 30, 0), _d(VI, 0, 7, 30)) >>

VIRGO ==
    << Arc(59, _d(VI, 0, 7, 30), _d(VI, 5, 45, 0)),
       Arc(40, _d(VI, 5, 45, 0), _d(VI, 11, 22, 30)),
       Arc(64, _d(VI, 11, 22, 30), _d(VI, 17, 0, 0)),
       Arc(47, _d(VI, 17, 0, 0), _d(VI, 22, 27, 30)),
       Arc(6, _d(VI, 22, 27, 30), _d(VI, 28, 15, 0)),
       Arc(46, _d(VI, 28, 15, 0), _d(LI, 3, 52, 30)) >>

LIBRA ==
    << Arc(18, _d(LI, 3, 52, 30), _d(LI, 9, 30, 0)),
       Arc(48, _d(LI, 9, 30, 0), _d(LI, 15, 7, 30)),
       Arc(57, _d(LI, 15, 7, 30), _d(LI, 20, 45, 0)),
       Arc(32, _d(LI, 20, 45, 0), _d(LI, 26, 22, 30)),
       Arc(50, _d(LI, 26, 22, 30), _d(SC, 2, 0, 0)) >>

SCORPIO ==
    << Arc(28, _d(SC, 2, 0, 0), _d(SC, 7, 37, 30)),
       Arc(44, _d(SC, 7, 37, 30), _d(SC, 13, 15, 0)),
       Arc(1, _d(SC, 13, 15, 0), _d(SC, 18, 52, 30)),
       Arc(43, _d(SC, 18, 52, 30), _d(SC, 24, 30, 0)),
       Arc(14, _d(SC, 24, 30, 0), _d(SG, 0, 7, 30)) >>

SAGITTARIUS ==
    << Arc(34, _d(SG, 0, 7, 30), _d(SG, 5, 45, 0)),
       Arc(9, _d(SG, 5, 45, 0), _d(SG, 11, 22, 30)),
       Arc(5, _d(SG, 11, 22, 30), _d(SG, 17, 0, 0)),
       Arc(26, _d(SG, 17, 0, 0), _d(SG, 22, 27, 30)),
       Arc(11, _d(SG, 22, 27, 30), _d(SG, 28, 15, 0)),
       Arc(10, _d(SG, 28, 15, 0), _d(CP, 3, 52, 30)) >>

CAPRICORN ==
    << Arc(58, _d(CP, 3, 52, 30), _d(CP, 9, 30, 0)),
       Arc(38, _d(CP, 9, 30, 0), _d(CP, 15, 7, 30)),
       Arc(54, _d(CP, 15, 7, 30), _d(CP, 20, 45, 0)),
       Arc(61, _d(CP, 20, 45, 0), _d(CP, 26, 22, 30)),
       Arc(60, _d(CP, 26, 22, 30), _d(AQ, 2, 0, 0)) >>

AQUARIUS ==
    << Arc(41, _d(AQ, 2, 0, 0), _d(AQ, 7, 37, 30)),
       Arc(19, _d(AQ, 7, 37, 30), _d(AQ, 13, 15, 0)),
       Arc(13, _d(AQ, 13, 15, 0), _d(AQ, 18, 52, 30)),
       Arc(49, _d(AQ, 18, 52, 30), _d(AQ, 24, 30, 0)),
       Arc(30, _d(AQ, 24, 30, 0), _d(PI, 0, 7, 30)) >>

PISCES ==
    << Arc(55, _d(PI, 0, 7, 30), _d(PI, 5, 45, 0)),
       Arc(37, _d(PI, 5, 45, 0), _d(PI, 11, 22, 30)),
       Arc(63, _d(PI, 11, 22, 30), _d(PI, 17, 0, 0)),
       Arc(22, _d(PI, 17, 0, 0), _d(PI, 22, 27, 30)),
       Arc(36, _d(PI, 22, 27, 30), _d(PI, 28, 15, 0)) >>

\* ARIES with the end of gate 25's head arc mistyped (3 52'00" for 3 52'30")
ARIES_typo ==
    << Arc(25, _d(PI, 28, 15, 0), Full),
       Arc(25, 0, _d(AR, 3, 52, 0)),
       Arc(17, _d(AR, 3, 52, 30), _d(AR, 9, 30, 0)),
       Arc(21, _d(AR, 9, 30, 0), _d(AR, 15, 7, 30)),
       Arc(51, _d(AR, 15, 7, 30), _d(AR, 20, 45, 0)),
       Arc(42, _d(AR, 20, 45, 0), _d(AR, 26, 22, 30)),
       Arc(3, _d(AR, 26, 22, 30), _d(TA, 2, 0, 0)) >>

_build_gate_ranges_typo ==
    ARIES_typo \o TAURUS \o GEMINI \o CANCER \o LEO \o VIRGO
      \o LIBRA \o SCORPIO \o SAGITTARIUS \o CAPRICORN \o AQUARIUS \o PISCES

\* the table with gate 25 stored as one arc running through 360
_build_gate_ranges_unsplit ==
    <<Arc(25, _d(PI, 28, 15, 0), _d(AR, 3, 52, 30))>> \o Tail(Tail(ARIES))
      \o TAURUS \o GEMINI \o CANCER \o LEO \o VIRGO
      \o LIBRA \o SCORPIO \o SAGITTARIUS \o CAPRICORN \o AQUARIUS \o PISCES

\* _build_gate_ranges(): the _add calls in source order
_build_gate_ranges ==
    ARIES \o TAURUS \o GEMINI \o CANCER \o LEO \o VIRGO
      \o LIBRA \o SCORPIO \o SAGITTARIUS \o CAPRICORN \o AQUARIUS \o PISCES

(***************************************************************************)
(* The gate/line resolver                                                  *)
(***************************************************************************)
NotCalled == [raised |-> FALSE, gate |-> 0, line |-> 0]

NoGateFound == [raised |-> TRUE, gate |-> 0, line |-> 0]

Returned(gate, line) == [raised |-> FALSE, gate |-> gate, line |-> line]

\* min(max(line, 1), 6)
Clamp(line) ==
    LET lo == IF line > 1 THEN line ELSE 1
    IN  IF lo < 6 THEN lo ELSE 6

\* round() where the code takes math.floor()
LineOf_round(offset, span) == ((6 * offset + span \div 2) \div span) + 1

\* int(math.floor(offset / (span / 6.0))) + 1
LineOf(offset, span) == ((6 * offset) \div span) + 1

\* the interval test written start < lon < end
ArcResult_open(arc, x) ==
    LET gate == arc[1]
        start == arc[2]
        end == arc[3]
    IN  IF start < x /\ x < end
        THEN Returned(gate, Clamp(LineOf(x - start, end - start)))
        ELSE NotCalled

\* the interval test written start < lon <= end
ArcResult_closed(arc, x) ==
    LET gate == arc[1]
        start == arc[2]
        end == arc[3]
    IN  IF start < x /\ x <= end
        THEN Returned(gate, Clamp(LineOf(x - start, end - start)))
        ELSE NotCalled

\* the body of the for loop for one table entry: the (gate, line) it returns,
\* or NotCalled when the entry does not contain x and the loop goes on
ArcResult(arc, x) ==
    LET gate == arc[1]
        start == arc[2]
        end == arc[3]
    IN  IF start <= end
        THEN IF start <= x /\ x < end
             THEN Returned(gate, Clamp(LineOf(x - start, end - start)))
             ELSE NotCalled
        ELSE IF x >= start \/ x < end
             THEN LET span == (Full - start) + end
                      offset == IF x >= start THEN x - start ELSE (Full - start) + x
                  IN  Returned(gate, Clamp(LineOf(offset, span)))
             ELSE NotCalled

\* for gate, start, end in GATE_RANGES from arc i on: the return of the
\* first arc that holds x, the RuntimeError if none does
ScanRanges(table, x, i) ==
    LET hits == {k \in i .. Len(table) : ArcResult(table[k], x) # NotCalled}
    IN  IF hits = {}
        THEN NoGateFound
        ELSE ArcResult(table[CHOOSE k \in hits : \A j \in hits : k <= j], x)

\* gate_line_from_longitude(lon) against the table `table`
gate_line_from_longitude(table, x) == ScanRanges(table, _norm360(x), 1)

\* the list with its first arc popped
GATE_RANGES_after_pop(table) == Tail(table)

\* the list as a call of gate_line_from_longitude leaves it: the for loop
\* reads the arcs and assigns to none
GATE_RANGES_after(table) == table

(***************************************************************************)
(* The Ephemeris Provider and the activation set builders                  *)
(***************************************************************************)
\* the bodies swe.calc_ut is asked for (swe.SUN, swe.EARTH, ...)
Bodies ==
    {"SUN", "EARTH", "MOON", "MERCURY", "VENUS", "MARS", "JUPITER", "SATURN",
     "URANUS", "NEPTUNE", "PLUTO", "TRUE_NODE"}

\* an answer of swe.calc_ut: a longitude, or an exception (swe.Error)
Answer(x) == [fails |-> FALSE, lon |-> x, error |-> ""]

ProviderError == [fails |-> TRUE, lon |-> 0, error |-> "swe.Error"]

NoProvider == [b \in Bodies |-> ProviderError]

\* the value of a call that has not been made, of one that raised, and of one
\* that returned the list acts
NotBuilt == [raised |-> FALSE, acts |-> <<>>, error |-> ""]

\* the call ended with the exception `error` leaving it
RaisedWith(error) == [raised |-> TRUE, acts |-> <<>>, error |-> error]

\* the resolver's RuntimeError leaving the call
Raised == RaisedWith("RuntimeError")

Built(acts) == [raised |-> FALSE, acts |-> acts, error |-> ""]

\* a builder at its first statement: an empty list, and no call of
\* swe.calc_ut made
Started == [raised |-> FALSE, acts |-> <<>>, error |-> "", asked |-> <<>>]

\* what the caller of a builder gets: the list, or the exception
Outcome(acc) == [raised |-> acc.raised, acts |-> acc.acts, error |-> acc.error]

\* the exception `error` leaves the builder
Raise(acc, error) == [acc EXCEPT !.raised = TRUE, !.acts = <<>>, !.error = error]

\* Activation(planet, longitude, gate, line)
Activation(planet, longitude, gate, line) ==
    [planet |-> planet, longitude |-> longitude, gate |-> gate, line |-> line]

\* RawActivation(planet=..., gate=..., line=...)
RawActivation(planet, gate, line) == [planet |-> planet, gate |-> gate, line |-> line]

\* out.append(Activation(name, lon, *gate_line_from_longitude(lon))); an
\* exception raised earlier, or by the resolver, ends the call
AppendActivation(table, acc, name, x) ==
    IF acc.raised
    THEN acc
    ELSE LET r == gate_line_from_longitude(table, x)
         IN  IF r.raised
             THEN Raise(acc, Raised.error)
             ELSE [acc EXCEPT !.acts = Append(@, Activation(name, x, r.gate, r.line))]

\* as QueryAndAppend, a failing query answered by longitude 0
QueryAndAppend_default(table, e, acc, name, body) ==
    IF acc.raised
    THEN acc
    ELSE AppendActivation(table, [acc EXCEPT !.asked = Append(@, body)], name,
                          _norm360(e[body].lon))

\* lon, _ = calc_lon_ut(jd_ut, body), then the append above
QueryAndAppend(table, e, acc, name, body) ==
    IF acc.raised
    THEN acc
    ELSE IF e[body].fails
         THEN Raise([acc EXCEPT !.asked = Append(@, body)], e[body].error)
         ELSE AppendActivation(table, [acc EXCEPT !.asked = Append(@, body)], name,
                               _norm360(e[body].lon))

\* the list `planets` of activations_for_jd
planets ==
    << <<"Sun", "SUN">>, <<"Earth", "EARTH">>, <<"Moon", "MOON">>,
       <<"Mercury", "MERCURY">>, <<"Venus", "VENUS">>, <<"Mars", "MARS">>,
       <<"Jupiter", "JUPITER">>, <<"Saturn", "SATURN">>, <<"Uranus", "URANUS">>,
       <<"Neptune", "NEPTUNE">>, <<"Pluto", "PLUTO">>, <<"TrueNode", "TRUE_NODE">> >>

\* for name, body in planets: if name == "Sun": continue; query, resolve, append
RECURSIVE OtherPlanets(_, _, _, _)
OtherPlanets(table, e, acc, i) ==
    IF i > Len(planets)
    THEN acc
    ELSE IF planets[i][1] = "Sun"
         THEN OtherPlanets(table, e, acc, i + 1)
         ELSE OtherPlanets(table, e,
                           QueryAndAppend(table, e, acc, planets[i][1], planets[i][2]),
                           i + 1)

\* for act in out: if act.planet == "TrueNode": append the South Node; break
SouthNodeOfFirstTrueNode(table, acc) ==
    IF acc.raised
    THEN acc
    ELSE LET hits == {i \in 1 .. Len(acc.acts) : acc.acts[i].planet = "TrueNode"}
         IN  IF hits = {}
             THEN acc
             ELSE LET first == CHOOSE i \in hits : \A j \in hits : i <= j
                  IN  AppendActivation(table, acc, "SouthNode",
                                       _norm360(acc.acts[first].longitude + 180 * UnitsPerDegree))

\* the dict `order` of activations_for_jd, as order.get(planet, 999)
order(planet) ==
    CASE planet = "Sun" -> 0
      [] planet = "Earth" -> 1
      [] planet = "Moon" -> 2
      [] planet = "TrueNode" -> 3
      [] planet = "SouthNode" -> 4
      [] planet = "Mercury" -> 5
      [] planet = "Venus" -> 6
      [] planet = "Mars" -> 7
      [] planet = "Jupiter" -> 8
      [] planet = "Saturn" -> 9
      [] planet = "Uranus" -> 10
      [] planet = "Neptune" -> 11
      [] planet = "Pluto" -> 12
      [] OTHER -> 999

\* list.sort(key=...): stable, an element goes after those with a key <= its own
RECURSIVE InsertByOrder(_, _)
InsertByOrder(sorted, a) ==
    IF sorted = <<>>
    THEN <<a>>
    ELSE IF order(sorted[Len(sorted)].planet) <= order(a.planet)
         THEN Append(sorted, a)
         ELSE Append(InsertByOrder(SubSeq(sorted, 1, Len(sorted) - 1), a),
                     sorted[Len(sorted)])

RECURSIVE SortByOrder(_)
SortByOrder(acts) ==
    IF acts = <<>>
    THEN <<>>
    ELSE InsertByOrder(SortByOrder(SubSeq(acts, 1, Len(acts) - 1)), acts[Len(acts)])

\* activations_for_jd(jd_ut), the provider at jd_ut being e
activations_for_jd(table, e) ==
    LET sun == QueryAndAppend(table, e, Started, "Sun", "SUN")
        earth == AppendActivation(table, sun, "Earth",
                                  _norm360(_norm360(e["SUN"].lon) + 180 * UnitsPerDegree))
        others == OtherPlanets(table, e, earth, 1)
        south == SouthNodeOfFirstTrueNode(table, others)
    IN  IF south.raised THEN south ELSE [south EXCEPT !.acts = SortByOrder(@)]

\* class Planet(Enum): the member definitions in source order, as (name, value)
PlanetDefs ==
    << <<"SUN", "SUN">>, <<"EARTH", "EARTH">>, <<"MOON", "MOON">>,
       <<"MERCURY", "MERCURY">>, <<"VENUS", "VENUS">>, <<"MARS", "MARS">>,
       <<"JUPITER", "JUPITER">>, <<"SATURN", "SATURN">>, <<"URANUS", "URANUS">>,
       <<"NEPTUNE", "NEPTUNE">>, <<"PLUTO", "PLUTO">>, <<"TRUE_NODE", "TRUE_NODE">>,
       <<"NORTH_NODE", "TRUE_NODE">>, <<"SOUTH_NODE", "999">> >>

\* Planet.<name>: a name whose value was defined earlier is an alias of the
\* member that first carried the value
Planet(name) ==
    LET i == CHOOSE k \in 1 .. Len(PlanetDefs) : PlanetDefs[k][1] = name
        first == CHOOSE k \in 1 .. Len(PlanetDefs) :
                    /\ PlanetDefs[k][2] = PlanetDefs[i][2]
                    /\ \A j \in 1 .. (k - 1) : PlanetDefs[j][2] # PlanetDefs[i][2]
    IN  [name |-> PlanetDefs[first][1], value |-> PlanetDefs[first][2]]

\* `for planet in Planet`: the members in definition order, aliases left out
RECURSIVE PlanetMembers(_)
PlanetMembers(i) ==
    IF i > Len(PlanetDefs)
    THEN <<>>
    ELSE IF Planet(PlanetDefs[i][1]).name = PlanetDefs[i][1]
         THEN <<Planet(PlanetDefs[i][1])>> \o PlanetMembers(i + 1)
         ELSE PlanetMembers(i + 1)

\* swe.calc_ut(jd_ut, id, flags): the provider's answer for the id, an id it
\* knows no body for raising; asked is the id the provider was handed
swe_calc_ut(e, id) ==
    LET answer == IF id \in DOMAIN e THEN e[id] ELSE ProviderError
    IN  [fails |-> answer.fails, lon |-> answer.lon, error |-> answer.error,
         asked |-> <<id>>]

\* Planet.lon_ut(jd_ut): raises for SOUTH_NODE, else swe.calc_ut(..)[0] % 360.0
lon_ut(e, planet) ==
    IF planet = Planet("SOUTH_NODE")
    THEN [fails |-> TRUE, lon |-> 0, error |-> "ValueError", asked |-> <<>>]
    ELSE LET xx == swe_calc_ut(e, planet.value)
         IN  IF xx.fails THEN xx ELSE [xx EXCEPT !.lon = _norm360(@)]

\* Planet.speed_ut(jd_ut): swe.calc_ut(..)[3]; the speed itself is not
\* modelled, lon is left as the provider gave it
speed_ut(e, planet) == swe_calc_ut(e, planet.value)

\* a longitude read again from its local variable: no call is made
Again(answer) == [answer EXCEPT !.asked = <<>>]

\* gate_num, line_num = definitions.gate_and_line_from_longitude(x);
\* activations.append(RawActivation(planet=..., gate=gate_num, line=line_num))
AppendRaw(definitions, acc, planet, answer) ==
    IF acc.raised
    THEN acc
    ELSE IF answer.fails
    THEN Raise([acc EXCEPT !.asked = @ \o answer.asked], answer.error)
    ELSE LET r == gate_line_from_longitude(definitions, answer.lon)
         IN  IF r.raised
             THEN Raise([acc EXCEPT !.asked = @ \o answer.asked], Raised.error)
             ELSE [acc EXCEPT !.asked = @ \o answer.asked,
                              !.acts = Append(@, RawActivation(planet.name, r.gate, r.line))]

\* x -> (x + 180.0) % 360.0 of a provider answer
Opposite(answer) ==
    IF answer.fails THEN answer ELSE [answer EXCEPT !.lon = (@ + 180 * UnitsPerDegree) % Full]

\* for planet in Planet: if planet in (SUN, EARTH, SOUTH_NODE): continue; ...
RECURSIVE RawOtherPlanets(_, _, _, _, _)
RawOtherPlanets(definitions, e, acc, members, i) ==
    IF i > Len(members)
    THEN acc
    ELSE IF members[i] \in {Planet("SUN"), Planet("EARTH"), Planet("SOUTH_NODE")}
         THEN RawOtherPlanets(definitions, e, acc, members, i + 1)
         ELSE RawOtherPlanets(definitions, e,
                              AppendRaw(definitions, acc, members[i], lon_ut(e, members[i])),
                              members, i + 1)

\* BodyGraphDefinition.load(): the gates of bodygraph.yaml with their ranges
BodyGraphDefinition_load == _build_gate_ranges

\* RawBodyGraph._activations_for_jd(jd_ut), the provider at jd_ut being e
RawBodyGraph_activations_for_jd(e) ==
    CHOOSE r \in
        {LET definitions == BodyGraphDefinition_load
             sun == AppendRaw(definitions, Started, Planet("SUN"), lon_ut(at, Planet("SUN")))
             earth == AppendRaw(definitions, sun, Planet("EARTH"),
                                Opposite(Again(lon_ut(at, Planet("SUN")))))
             others == RawOtherPlanets(definitions, at, earth, PlanetMembers(1), 1)
             south == AppendRaw(definitions, others, Planet("SOUTH_NODE"),
                                Opposite(lon_ut(at, Planet("NORTH_NODE"))))
         IN  south :
         at \in {e}} : TRUE

(***************************************************************************)
(* The design-time solver                                                  *)
(*                                                                         *)
(* Sun longitudes are counted in ticks of 1/3 micro-degree and Julian Days *)
(* in ticks of 1/3 micro-day from birth_jd, so the tolerance 1e-6 is three *)
(* ticks; speeds are in 1e-4 degree per day.  Divisions round down to a    *)
(* tick where the Python code rounds to a double.                          *)
(***************************************************************************)
TicksPerDegree == 3 * 1000000

TicksPerDay == 3 * 1000000

FullTicks == 360 * TicksPerDegree

SpeedScale == 10 * 1000

\* floor(a * b / c) for c > 0, without forming a * b
MulDiv(a, b, c) == (a \div c) * b + ((a % c) * b) \div c

\* the speed the Sun has in run k from birth: track.vA and track.vB in
\* alternating runs of track.run ticks each
SpeedInRun(tr, k) == IF k % 2 = 0 THEN tr.vA ELSE tr.vB

\* the arc moved in w ticks of time at speed v
ArcAt(w, v) == MulDiv(w, v, SpeedScale)

\* the arc the Sun has moved t ticks after birth (negative before): whole
\* pairs of runs, an odd whole run, and the part of the run t lies in
SunArc(tr, t) ==
    LET k == t \div tr.run
        part == t % tr.run
    IN  (k \div 2) * (ArcAt(tr.run, tr.vA) + ArcAt(tr.run, tr.vB))
          + (IF k % 2 = 1 THEN ArcAt(tr.run, tr.vA) ELSE 0)
          + ArcAt(part, SpeedInRun(tr, k))

\* calc_lon_ut(jd, swe.SUN): (longitude % 360.0, speed)
calc_sun_ut(tr, t) ==
    [lon |-> (tr.birthLon + SunArc(tr, t)) % FullTicks,
     speed |-> SpeedInRun(tr, t \div tr.run)]

\* _angdiff_signed(a, b): (a - b + 180.0) % 360.0 - 180.0
_angdiff_signed(a, b) ==
    ((a - b + 180 * TicksPerDegree) % FullTicks) - 180 * TicksPerDegree

\* range(20)
MaxIter == 20

\* the 88.0 of target = _norm360(birth_sun_lon - 88.0)
SolarArc == 88

\* the 88.0 of jd = birth_jd - 88.0
GuessDays == 88

\* the fallback speed 0.9856
MeanMotion == 9856

\* target = _norm360(birth_sun_lon + 88.0)
DesignTarget_ahead(birth_sun_lon) == (birth_sun_lon + SolarArc * TicksPerDegree) % FullTicks

\* target = _norm360(birth_sun_lon - 88.0)
DesignTarget(birth_sun_lon) == (birth_sun_lon - SolarArc * TicksPerDegree) % FullTicks

\* abs(err) < 1e-3
Converged_loose(err) == Abs(err) < TicksPerDegree \div 1000

\* abs(err) < 1e-6
Converged(err) == Abs(err) < TicksPerDegree \div 1000000

\* speed, with no fallback
Divisor_nofallback(speed) == speed

\* (speed if speed != 0 else 0.9856)
Divisor(speed) == IF speed # 0 THEN speed ELSE MeanMotion

\* err / (speed if speed != 0 else 0.9856), in ticks of a day
NewtonStep(err, speed) ==
    LET by == Divisor(speed)
    IN  IF by > 0
        THEN MulDiv(err, SpeedScale, by)
        ELSE 0 - MulDiv(err, SpeedScale, 0 - by)

SolverIdle ==
    /\ track = [birthLon |-> 0, vA |-> SpeedScale, vB |-> SpeedScale, run |-> TicksPerDay]
    /\ pc = "idle"
    /\ target = 0
    /\ jd = 0
    /\ queries = 0

\* find_design_jd(birth_jd, birth_sun_lon) up to the for loop, birth_sun_lon
\* being calc_lon_ut(birth_jd, swe.SUN)[0]
FindDesignJd ==
    /\ pc = "idle"
    /\ target' = DesignTarget(calc_sun_ut(track, 0).lon)
    /\ jd' = 0 - GuessDays * TicksPerDay
    /\ queries' = 0
    /\ pc' = "loop"
    /\ UNCHANGED <<GATE_RANGES, resolverVars, builderVars, track, restVars>>

\* one pass of the for loop, calc_lon_ut(jd, swe.SUN) having answered sun:
\* break on convergence, else step (a division by zero raises); the function
\* returns jd when the loop breaks or its 20 passes are used up
IterateWith(sun) ==
    /\ pc = "loop"
    /\ queries < MaxIter
    /\ LET err == _angdiff_signed(sun.lon, target)
       IN  /\ queries' = queries + 1
           /\ IF Converged(err)
              THEN /\ pc' = "done"
                   /\ jd' = jd
              ELSE IF Divisor(sun.speed) = 0
              THEN /\ pc' = "raised"
                   /\ jd' = jd
              ELSE /\ jd' = jd - NewtonStep(err, sun.speed)
                   /\ pc' = IF queries + 1 = MaxIter THEN "done" ELSE "loop"
    /\ UNCHANGED <<GATE_RANGES, resolverVars, builderVars, track, target, restVars>>

\* a pass under the provider that follows the Sun's track
Iterate == IterateWith(calc_sun_ut(track, jd))

\* what an arbitrary provider may answer: the target missed by nothing or by
\* a degree, at speed 0, 1 or -1 degree per day
AnyErrs == {0, TicksPerDegree}

AnySpeeds == {0, SpeedScale, 0 - SpeedScale}

\* a pass under a provider that answers anything
IterateAny ==
    \E e \in AnyErrs, v \in AnySpeeds :
        IterateWith([lon |-> (target + e) % FullTicks, speed |-> v])

\* Sun speeds in the typical range [0.95, 1.02] degree per day
TypicalSpeeds == {9500, 9856, SpeedScale, 10200}

BirthSunLons ==
    {0, 50 * TicksPerDegree, 88 * TicksPerDegree - 1, 88 * TicksPerDegree,
     280 * TicksPerDegree, FullTicks - 1}

\* run lengths: 1/300 day, a day, 45 days, and 300 days (one speed before
\* birth, one after)
Runs == {TicksPerDay \div 300, TicksPerDay, 45 * TicksPerDay, 300 * TicksPerDay}

Tracks ==
    {[birthLon |-> b, vA |-> a, vB |-> c, run |-> w] :
        b \in BirthSunLons, a \in TypicalSpeeds, c \in TypicalSpeeds, w \in Runs}

InitSolver ==
    /\ GATE_RANGES = _build_gate_ranges
    /\ lon = 0
    /\ resolved = NotCalled
    /\ eph = NoProvider
    /\ out = NotBuilt
    /\ activations = NotBuilt
    /\ asked = <<>>
    /\ track \in Tracks
    /\ pc = "idle"
    /\ target = 0
    /\ jd = 0
    /\ queries = 0
    /\ RestIdle

NextSolver == FindDesignJd \/ Iterate

SpecSolver == InitSolver /\ [][NextSolver]_vars

\* the solver under a provider that answers anything; the interpreter runs
\* the call to its end
InitAnySolver ==
    /\ InitSolver
    /\ track.vA = SpeedScale
    /\ track.vB = SpeedScale
    /\ track.run = TicksPerDay

NextAnySolver == FindDesignJd \/ IterateAny

SpecAnySolver == InitAnySolver /\ [][NextAnySolver]_vars /\ WF_vars(NextAnySolver)

(***************************************************************************)
(* The resolver as a state machine                                         *)
(***************************************************************************)
Longitudes == 0 .. (Full - 1)

InitResolve ==
    /\ GATE_RANGES = _build_gate_ranges
    /\ lon \in Longitudes
    /\ resolved = NotCalled
    /\ eph = NoProvider
    /\ out = NotBuilt
    /\ activations = NotBuilt
    /\ asked = <<>>
    /\ SolverIdle
    /\ RestIdle

Resolve ==
    /\ resolved' = gate_line_from_longitude(GATE_RANGES, lon)
    /\ GATE_RANGES' = GATE_RANGES_after(GATE_RANGES)
    /\ UNCHANGED <<lon, builderVars, solverVars, restVars>>

NextResolve == Resolve

SpecResolve == InitResolve /\ [][NextResolve]_vars

(***************************************************************************)
(* The activation set builders as a state machine                          *)
(***************************************************************************)
SunLons ==
    {0, _d(AR, 3, 52, 30), _d(VI, 29, 59, 35), _d(CP, 10, 0, 0), _d(PI, 28, 15, 0), Full - 1}

NodeLons == {0, _d(LI, 3, 52, 5), _d(PI, 29, 0, 0)}

MoonLons == {_d(TA, 15, 0, 0), _d(SG, 11, 22, 30)}

\* what swe.calc_ut answers for swe.EARTH with geocentric flags is the
\* library's business: some longitude, or an exception
EarthAnswers == {Answer(0), Answer(_d(GE, 1, 0, 0)), ProviderError}

\* the provider at one Julian Day, all bodies answering
Sky(sunLon, nodeLon, moonLon, earthAnswer) ==
    [b \in Bodies |->
        CASE b = "SUN" -> Answer(sunLon)
          [] b = "TRUE_NODE" -> Answer(nodeLon)
          [] b = "MOON" -> Answer(moonLon)
          [] b = "EARTH" -> earthAnswer
          [] b = "MERCURY" -> Answer(_d(CP, 1, 0, 0))
          [] b = "VENUS" -> Answer(_d(AQ, 20, 30, 0))
          [] b = "MARS" -> Answer(_d(LE, 7, 37, 30))
          [] b = "JUPITER" -> Answer(_d(CA, 5, 0, 0))
          [] b = "SATURN" -> Answer(_d(CP, 19, 0, 0))
          [] b = "URANUS" -> Answer(_d(CP, 6, 0, 0))
          [] b = "NEPTUNE" -> Answer(_d(CP, 12, 30, 0))
          [] OTHER -> Answer(_d(SC, 16, 0, 0))]

\* the providers considered: every body answers, or exactly one raises
Providers ==
    {[b \in Bodies |-> IF b = failing THEN ProviderError ELSE sky[b]] :
        sky \in {Sky(s, n, m, a) : s \in SunLons, n \in NodeLons,
                                   m \in MoonLons, a \in EarthAnswers},
        failing \in Bodies \cup {"none"}}

InitActivations ==
    /\ GATE_RANGES = _build_gate_ranges
    /\ lon = 0
    /\ resolved = NotCalled
    /\ eph \in Providers
    /\ out = NotBuilt
    /\ activations = NotBuilt
    /\ asked = <<>>
    /\ SolverIdle
    /\ RestIdle

\* a call of original_calculation.activations_for_jd
ActivationsForJd ==
    /\ \E r \in {activations_for_jd(GATE_RANGES, eph)} :
          /\ out' = Outcome(r)
          /\ asked' = r.asked
    /\ GATE_RANGES' = GATE_RANGES_after(GATE_RANGES)
    /\ UNCHANGED <<resolverVars, eph, activations, solverVars, restVars>>

\* a call of RawBodyGraph._activations_for_jd
RawActivationsForJd ==
    /\ \E r \in {RawBodyGraph_activations_for_jd(eph)} :
          /\ activations' = Outcome(r)
          /\ asked' = r.asked
    /\ UNCHANGED <<GATE_RANGES, resolverVars, eph, out, solverVars, restVars>>

NextActivations == ActivationsForJd \/ RawActivationsForJd

SpecActivations == InitActivations /\ [][NextActivations]_vars

(***************************************************************************)
(* Local time to Julian Day                                                *)
(*                                                                         *)
(* Times of day are counted in quarters of an hour and Julian Days in      *)
(* quarters of an hour too (96 to the day), so every UTC offset in use is  *)
(* a whole number and the .5 of the Julian Day formula is 48.              *)
(***************************************************************************)
coreVars == <<GATE_RANGES, resolverVars, builderVars, solverVars>>

\* the calculation core is not in use
CoreIdle ==
    /\ GATE_RANGES = _build_gate_ranges
    /\ lon = 0
    /\ resolved = NotCalled
    /\ eph = NoProvider
    /\ out = NotBuilt
    /\ activations = NotBuilt
    /\ asked = <<>>
    /\ SolverIdle

QuartersPerDay == 24 * 4

\* ZoneInfo(tz_name): the offset from UTC in force in the winter months
ZoneInfo(tz_name) ==
    CASE tz_name = "America/New_York" -> 0 - 5 * 4
      [] tz_name = "Europe/Paris" -> 1 * 4
      [] tz_name = "Asia/Kathmandu" -> 5 * 4 + 3
      [] OTHER -> 0

IsLeap(year) == (year % 4 = 0 /\ year % 100 # 0) \/ year % 400 = 0

DaysInMonth(year, month) ==
    CASE month = 2 -> IF IsLeap(year) THEN 29 ELSE 28
      [] month \in {4, 6, 9, 11} -> 30
      [] OTHER -> 31

\* the calendar day before and after a date, as datetime arithmetic gives them
PrevDay(dt) ==
    IF dt.day > 1
    THEN [dt EXCEPT !.day = dt.day - 1]
    ELSE IF dt.month > 1
         THEN [dt EXCEPT !.month = dt.month - 1, !.day = DaysInMonth(dt.year, dt.month - 1)]
         ELSE [dt EXCEPT !.year = dt.year - 1, !.month = 12, !.day = 31]

NextDay(dt) ==
    IF dt.day < DaysInMonth(dt.year, dt.month)
    THEN [dt EXCEPT !.day = dt.day + 1]
    ELSE IF dt.month < 12
         THEN [dt EXCEPT !.month = dt.month + 1, !.day = 1]
         ELSE [dt EXCEPT !.year = dt.year + 1, !.month = 1, !.day = 1]

\* self.root.replace(tzinfo=tz), the zone dropped: the local reading taken for UTC
LocalTime_utc_naive(stamp) == [stamp EXCEPT !.tz = "UTC"]

\* LocalTime.utc(tz_name): self.root.replace(tzinfo=tz).astimezone(UTC)
LocalTime_utc(stamp) ==
    LET q == stamp.quarter - ZoneInfo(stamp.tz)
    IN  IF q < 0
        THEN [PrevDay(stamp) EXCEPT !.quarter = q + QuartersPerDay, !.tz = "UTC"]
        ELSE IF q >= QuartersPerDay
             THEN [NextDay(stamp) EXCEPT !.quarter = q - QuartersPerDay, !.tz = "UTC"]
             ELSE [stamp EXCEPT !.quarter = q, !.tz = "UTC"]

\* swe.julday(year, month, day, hour, swe.GREG_CAL) for years after 0:
\* floor(u0 * 365.25) + floor(30.6 * u1 + 0.000001) + day + hour / 24 - 63.5 - u2 + 2
swe_julday(year, month, day, quarter) ==
    LET u == IF month < 3 THEN year - 1 ELSE year
        u0 == u + 4712
        u1 == IF month + 1 < 4 THEN month + 13 ELSE month + 1
        u2 == (u \div 100) - (u \div 400)
    IN  ((1461 * u0) \div 4 + (306 * u1) \div 10 + day - u2 + 2 - 63) * QuartersPerDay
          + quarter - QuartersPerDay \div 2

\* LocalTime.jd(tz_name)
LocalTime_jd(stamp) ==
    LET utc == LocalTime_utc(stamp)
    IN  swe_julday(utc.year, utc.month, utc.day, utc.quarter)

\* the dates, times of day and zones the two local date-times are drawn from
Dates ==
    {<<1990, 1, 1>>, <<1999, 12, 31>>, <<2000, 1, 1>>, <<2000, 2, 28>>, <<2000, 2, 29>>,
     <<2000, 3, 1>>, <<2001, 2, 28>>, <<2001, 3, 1>>}

Quarters == {0, 2, 50, 94, 95}

TzNames == {"UTC", "America/New_York", "Europe/Paris", "Asia/Kathmandu"}

Stamps == {Stamp(d[1], d[2], d[3], q, z) : d \in Dates, q \in Quarters, z \in TzNames}

InitTime ==
    /\ CoreIdle
    /\ stamps \in Stamps \X Stamps
    /\ jds = <<NoJd, NoJd>>
    /\ GeoIdle
    /\ InfoIdle
    /\ workers = NoWorkers
    /\ LibIdle

\* a call of LocalTime.jd for the i-th date-time
JulianDay(i) ==
    /\ jds' = [jds EXCEPT ![i] = LocalTime_jd(stamps[i])]
    /\ UNCHANGED <<coreVars, stamps, geoVars, infoVars, workers, libVars>>

NextTime == \E i \in {1, 2} : JulianDay(i)

SpecTime == InitTime /\ [][NextTime]_vars

(***************************************************************************)
(* geocode_place and its JSON cache file                                   *)
(***************************************************************************)
\* f"{city}, {country}"
Place(city, country) == <<city, ", ", country>>

Places == {Place("Paris", "France"), Place("Lima", "Peru")}

\* the (lat, lon) pairs the geocoder may answer with
Coords == {<<48, 2>>, <<27, 85>>, <<0, 0>>}

\* `place in cache` is False
Missing == <<>>

\* a cache file whose content json.load rejects
Corrupt == [kind |-> "not JSON", dict |-> <<>>]

\* the dict {} as place -> (lat, lon), every place missing
EmptyCache == [p \in Places |-> Missing]

\* a cache file as json.dump(cache, f) leaves it
JsonFile(cache) == [kind |-> "JSON", dict |-> cache]

\* what the geocoder may do when contacted: answer a location, answer None,
\* or raise
GeocoderAnswers ==
    {[kind |-> "loc", coords |-> c] : c \in Coords}
        \cup {[kind |-> k, coords |-> Missing] : k \in {"None", "raises"}}

\* cache = {}; if os.path.exists(cache_path): try: cache = json.load(f)
\* except Exception: cache = {}
LoadCache(file) == IF file.kind = "JSON" THEN file.dict ELSE EmptyCache

\* {place: ...} alone, what was loaded dropped
StoreAlone(cache, place, coords) == [EmptyCache EXCEPT ![place] = coords]

\* the entry not made
StoreNothing(cache, place, coords) == cache

\* cache[place] = {"lat": lat, "lon": lon, "ts": time.time()}
Store(cache, place, coords) == [cache EXCEPT ![place] = coords]

\* what a call returned: the pair, or the exception that left it, and
\* whether the geocoder was contacted
GeoReturn(place, coords, contacted) ==
    [place |-> place, raised |-> FALSE, value |-> coords, error |-> "", contacted |-> contacted]

GeoRaise(place, error) ==
    [place |-> place, raised |-> TRUE, value |-> Missing, error |-> error, contacted |-> TRUE]

\* geocode_place(place) with the cache file holding `file` and the geocoder,
\* if contacted, doing `answer`: the call's result and the file afterwards.
\* calculate_utils turns an exception of the geocoder into loc = None;
\* original_calculation lets it through.
geocode_place(place, file, answer, catches) ==
    LET cache == LoadCache(file)
    IN  IF cache[place] # Missing
        THEN [result |-> GeoReturn(place, cache[place], FALSE), file |-> file]
        ELSE IF answer.kind = "raises" /\ ~catches
        THEN [result |-> GeoRaise(place, "GeocoderServiceError"), file |-> file]
        ELSE IF answer.kind \in {"None", "raises"}
        THEN [result |-> GeoRaise(place, "RuntimeError"), file |-> file]
        ELSE [result |-> GeoReturn(place, answer.coords, TRUE),
              file |-> JsonFile(Store(cache, place, answer.coords))]

\* the calls of geocode_place followed
MaxCalls == 3

\* the cache file found at start: none, an unreadable one, or one written
\* by an earlier run
InitGeocode ==
    /\ CoreIdle
    /\ TimeIdle
    /\ cacheFile \in {NoFile, Corrupt, JsonFile(EmptyCache)}
                       \cup {JsonFile(Store(EmptyCache, p, c)) : p \in Places, c \in Coords}
    /\ calls = <<>>
    /\ InfoIdle
    /\ workers = NoWorkers
    /\ LibIdle

\* a call of calculate_utils.geocode_place
GeocodePlace ==
    /\ Len(calls) < MaxCalls
    /\ \E place \in Places, answer \in GeocoderAnswers :
          LET r == geocode_place(place, cacheFile, answer, TRUE)
          IN  /\ calls' = Append(calls, r.result)
              /\ cacheFile' = r.file
    /\ UNCHANGED <<coreVars, timeVars, infoVars, workers, libVars>>

\* a call of original_calculation.geocode_place
GeocodePlaceOriginal ==
    /\ Len(calls) < MaxCalls
    /\ \E place \in Places, answer \in GeocoderAnswers :
          LET r == geocode_place(place, cacheFile, answer, FALSE)
          IN  /\ calls' = Append(calls, r.result)
              /\ cacheFile' = r.file
    /\ UNCHANGED <<coreVars, timeVars, infoVars, workers, libVars>>

NextGeocode == GeocodePlace \/ GeocodePlaceOriginal

SpecGeocode == InitGeocode /\ [][NextGeocode]_vars

(***************************************************************************)
(* BirthInfo: construction and its computed properties                     *)
(*                                                                         *)
(* A date string is its year, month and day with whether the month and day *)
(* are zero-padded; "%Y-%m-%d" parses both writings and prints the padded. *)
(***************************************************************************)
DateStr(year, month, day, padded) ==
    [year |-> year, month |-> month, day |-> day, padded |-> padded]

\* datetime.strptime(date_str, "%Y-%m-%d") succeeds
strptime_ok(date) ==
    /\ date.month \in 1 .. 12
    /\ date.day \in 1 .. DaysInMonth(date.year, date.month)

\* self.localtime.root.strftime("%Y-%m-%d")
strftime(localtime) == DateStr(localtime.year, localtime.month, localtime.day, TRUE)

\* the validator accepting every date
validate_date_matches_localtime_any(date, localtime) == TRUE

\* validate_date_matches_localtime: lt_date != self.date raises
validate_date_matches_localtime(date, localtime) == strftime(localtime) = date

\* BirthInfo(date=..., localtime=..., city=..., country=...): the field
\* validators, then the model validator
BirthInfo(date, localtime, city, country) ==
    [state |-> IF strptime_ok(date) /\ validate_date_matches_localtime(date, localtime)
               THEN "object"
               ELSE "ValidationError",
     date |-> date, localtime |-> localtime, city |-> city, country |-> country]

\* the state a property works on (the cache file, the service counts) with
\* the property's value or the exception leaving it
Ret(file, fx, value) ==
    [file |-> file, fx |-> fx, raised |-> FALSE, error |-> "", value |-> value]

Exc(file, fx, error, value) ==
    [file |-> file, fx |-> fx, raised |-> TRUE, error |-> error, value |-> value]

\* BirthInfo.coordinates: geocode_place(self.place)
BirthInfo_coordinates(bi, file, fx, answer) ==
    CHOOSE r \in
        {LET fx1 == [fx EXCEPT !.geocode = @ + 1,
                              !.contacts = @ + (IF g.result.contacted THEN 1 ELSE 0)]
         IN  IF g.result.raised
             THEN Exc(g.file, fx1, g.result.error, Missing)
             ELSE Ret(g.file, fx1, g.result.value) :
         g \in {geocode_place(Place(bi.city, bi.country), file, answer, TRUE)}} : TRUE

\* TimezoneFinder().timezone_at(lat=lat, lng=lon): a zone name or None
timezone_at(coords) ==
    CASE coords = <<48, 2>> -> "Europe/Paris"
      [] coords = <<27, 85>> -> "Asia/Kathmandu"
      [] OTHER -> "None"

\* BirthInfo.timezone
BirthInfo_timezone(bi, file, fx, answer) ==
    CHOOSE r \in
        {LET fx1 == [c.fx EXCEPT !.timezone = @ + 1]
         IN  IF c.raised
             THEN Exc(c.file, c.fx, c.error, "")
             ELSE IF timezone_at(c.value) = "None"
                  THEN Exc(c.file, fx1, "RuntimeError", "")
                  ELSE Ret(c.file, fx1, timezone_at(c.value)) :
         c \in {BirthInfo_coordinates(bi, file, fx, answer)}} : TRUE

\* BirthInfo.birth_jd_ut: self.localtime.jd(self.timezone)
BirthInfo_birth_jd_ut(bi, file, fx, answer) ==
    CHOOSE r \in
        {LET lt == bi.localtime
         IN  IF z.raised
             THEN Exc(z.file, z.fx, z.error, NoJd)
             ELSE Ret(z.file, z.fx,
                      LocalTime_jd(Stamp(lt.year, lt.month, lt.day, lt.quarter, z.value))) :
         z \in {BirthInfo_timezone(bi, file, fx, answer)}} : TRUE

\* the provider is a function of the Julian Day: the Sun's track around a
\* birth instant, given the speeds tr of the year
SunTrackAt(tr, birth_jd) == [tr EXCEPT !.birthLon = (birth_jd % 360) * TicksPerDegree]

\* the Newton-Raphson loop of design_jd_ut from pass n on: the JD reached
\* and the Sun queries made
RECURSIVE design_loop(_, _, _, _)
design_loop(tr, tgt, t, n) ==
    IF n = MaxIter
    THEN [jd |-> t, queries |-> n]
    ELSE LET sun == calc_sun_ut(tr, t)
             err == _angdiff_signed(sun.lon, tgt)
         IN  IF Converged(err)
             THEN [jd |-> t, queries |-> n + 1]
             ELSE CHOOSE r \in {design_loop(tr, tgt, t1, n + 1) :
                                t1 \in {t - NewtonStep(err, sun.speed)}} : TRUE

\* the target and the loop of design_jd_ut, the Sun's longitude at birth
\* having been taken at birth_jd
design_run(tr, birth_jd) ==
    CHOOSE r \in
        {design_loop(sky, tgt, 0 - GuessDays * TicksPerDay, 0) :
         sky \in {SunTrackAt(tr, birth_jd)},
         tgt \in {DesignTarget(calc_sun_ut(SunTrackAt(tr, birth_jd), 0).lon)}} : TRUE

\* BirthInfo.design_jd_ut: birth_jd_ut read for the Sun's longitude and read
\* again for the first guess, then the loop; the value is the birth JD with
\* the solved distance from it in ticks
BirthInfo_design_jd_ut(bi, file, fx, answer, tr) ==
    CHOOSE r \in
        {IF b1.raised
         THEN Exc(b1.file, b1.fx, b1.error, [birth |-> NoJd, offset |-> 0])
         ELSE CHOOSE r2 \in
                 {IF b2.raised
                  THEN Exc(b2.file, b2.fx, b2.error, [birth |-> NoJd, offset |-> 0])
                  ELSE CHOOSE r3 \in
                          {Ret(b2.file,
                               [b2.fx EXCEPT !.sun = @ + run.queries, !.solver = @ + 1],
                               [birth |-> b2.value, offset |-> run.jd]) :
                           run \in {design_run(tr, b1.value)}} : TRUE :
                  b2 \in {BirthInfo_birth_jd_ut(bi, b1.file,
                                                [b1.fx EXCEPT !.sun = @ + 1], answer)}} : TRUE :
         b1 \in {BirthInfo_birth_jd_ut(bi, file, fx, answer)}} : TRUE

Properties == {"coordinates", "timezone", "birth_jd_ut", "design_jd_ut"}

\* reading bi.<name>
GetProperty(name, bi, file, fx, answer, tr) ==
    CASE name = "coordinates" -> BirthInfo_coordinates(bi, file, fx, answer)
      [] name = "timezone" -> BirthInfo_timezone(bi, file, fx, answer)
      [] name = "birth_jd_ut" -> BirthInfo_birth_jd_ut(bi, file, fx, answer)
      [] OTHER -> BirthInfo_design_jd_ut(bi, file, fx, answer, tr)

\* the reads of properties followed
MaxReads == 3

\* the arguments BirthInfo(...) is evaluated with
DateStrs ==
    {DateStr(1999, 12, 31, TRUE), DateStr(2000, 1, 1, TRUE), DateStr(2000, 1, 1, FALSE),
     DateStr(2000, 2, 30, TRUE)}

LocalTimes ==
    {[year |-> 1999, month |-> 12, day |-> 31, quarter |-> 95],
     [year |-> 2000, month |-> 1, day |-> 1, quarter |-> 2]}

Addresses == {<<"Paris", "France">>, <<"Lima", "Peru">>}

InfoTracks ==
    {[birthLon |-> 0, vA |-> SpeedScale, vB |-> SpeedScale, run |-> TicksPerDay],
     [birthLon |-> 0, vA |-> 9500, vB |-> 10200, run |-> TicksPerDay]}

InitBirthInfo ==
    /\ GATE_RANGES = _build_gate_ranges
    /\ lon = 0
    /\ resolved = NotCalled
    /\ eph = NoProvider
    /\ out = NotBuilt
    /\ activations = NotBuilt
    /\ asked = <<>>
    /\ track \in InfoTracks
    /\ pc = "idle"
    /\ target = 0
    /\ jd = 0
    /\ queries = 0
    /\ TimeIdle
    /\ cacheFile \in {NoFile, JsonFile(Store(EmptyCache, Place("Paris", "France"), <<48, 2>>))}
    /\ calls = <<>>
    /\ InfoIdle
    /\ workers = NoWorkers
    /\ LibIdle

\* BirthInfo(date=..., localtime=..., city=..., country=...) is evaluated
Construct ==
    /\ info = NoInfo
    /\ \E date \in DateStrs, localtime \in LocalTimes, a \in Addresses :
          info' = BirthInfo(date, localtime, a[1], a[2])
    /\ UNCHANGED <<coreVars, timeVars, geoVars, effects, reads, graphs, workers, libVars>>

\* a property of the BirthInfo is read
Read ==
    /\ info.state = "object"
    /\ Len(reads) < MaxReads
    /\ \E name \in Properties, answer \in GeocoderAnswers :
          LET r == GetProperty(name, info, cacheFile, effects, answer, track)
          IN  /\ reads' = Append(reads, [name |-> name, raised |-> r.raised,
                                         error |-> r.error, value |-> r.value])
              /\ cacheFile' = r.file
              /\ effects' = r.fx
    /\ UNCHANGED <<coreVars, timeVars, calls, info, graphs, workers, libVars>>

NextBirthInfo == Construct \/ Read

SpecBirthInfo == InitBirthInfo /\ [][NextBirthInfo]_vars

(***************************************************************************)
(* RawBodyGraph: both activation lists of a BirthInfo                      *)
(***************************************************************************)
\* the provider as a function of the Julian Day: the bodies t ticks from the
\* birth instant, the Sun on its track, the Moon 13 degrees a day from where
\* sky has it, the others where sky has them
SkyAt(sky, tr, t) ==
    CHOOSE e \in
        {[b \in Bodies |->
             CASE b = "SUN" ->
                    IF sky[b].fails
                    THEN sky[b]
                    ELSE Answer(MulDiv(sun.lon, UnitsPerDegree, TicksPerDegree))
               [] b = "MOON" ->
                    IF sky[b].fails
                    THEN sky[b]
                    ELSE Answer((sky[b].lon + 13 * UnitsPerDegree * (t \div TicksPerDay)) % Full)
               [] OTHER -> sky[b]] :
         sun \in {calc_sun_ut(tr, t)}} : TRUE

NoGraph ==
    [birth_jd |-> NoJd, design_jd |-> [birth |-> NoJd, offset |-> 0],
     conscious |-> <<>>, unconscious |-> <<>>]

\* RawBodyGraph(birth_info=bi) with conscious_activations and
\* unconscious_activations read
RawBodyGraph(bi, file, fx, answer, tr, sky) ==
    CHOOSE r \in
        {IF b.raised
         THEN Exc(b.file, b.fx, b.error, NoGraph)
         ELSE CHOOSE r2 \in
                 {IF conscious.raised
                  THEN Exc(b.file, b.fx, conscious.error, NoGraph)
                  ELSE IF d.raised
                  THEN Exc(d.file, d.fx, d.error, NoGraph)
                  ELSE CHOOSE r3 \in
                          {IF unconscious.raised
                           THEN Exc(d.file, d.fx, unconscious.error, NoGraph)
                           ELSE Ret(d.file, d.fx,
                                    [birth_jd |-> b.value, design_jd |-> d.value,
                                     conscious |-> conscious.acts,
                                     unconscious |-> unconscious.acts]) :
                           unconscious \in
                               {RawBodyGraph_activations_for_jd(
                                    SkyAt(sky, SunTrackAt(tr, b.value), d.value.offset))}} : TRUE :
                  conscious \in
                      {RawBodyGraph_activations_for_jd(SkyAt(sky, SunTrackAt(tr, b.value), 0))},
                  d \in {BirthInfo_design_jd_ut(bi, b.file, b.fx, answer, tr)}} : TRUE :
         b \in {BirthInfo_birth_jd_ut(bi, file, fx, answer)}} : TRUE

\* the bodygraphs built from one BirthInfo
MaxBuilds == 2

GraphSkies ==
    {Sky(_d(CP, 10, 0, 0), 0, _d(TA, 15, 0, 0), Answer(0)),
     [Sky(0, _d(PI, 29, 0, 0), _d(SG, 11, 22, 30), Answer(0)) EXCEPT !["PLUTO"] = ProviderError]}

InitBodygraph ==
    /\ GATE_RANGES = _build_gate_ranges
    /\ lon \in {0, _d(VI, 29, 59, 35)}
    /\ resolved = NotCalled
    /\ eph \in GraphSkies
    /\ out = NotBuilt
    /\ activations = NotBuilt
    /\ asked = <<>>
    /\ track \in InfoTracks
    /\ pc = "idle"
    /\ target = 0
    /\ jd = 0
    /\ queries = 0
    /\ TimeIdle
    /\ cacheFile \in {NoFile, JsonFile(Store(EmptyCache, Place("Paris", "France"), <<48, 2>>))}
    /\ calls = <<>>
    /\ InfoIdle
    /\ workers = NoWorkers
    /\ LibIdle

\* a bodygraph is built from the BirthInfo
Build ==
    /\ info.state = "object"
    /\ Len(graphs) < MaxBuilds
    /\ \E answer \in GeocoderAnswers :
          \E r \in {RawBodyGraph(info, cacheFile, effects, answer, track, eph)} :
              /\ graphs' = Append(graphs, [raised |-> r.raised, error |-> r.error,
                                           value |-> r.value])
              /\ cacheFile' = r.file
              /\ effects' = r.fx
    /\ UNCHANGED <<coreVars, timeVars, calls, info, reads, workers, libVars>>

NextBodygraph ==
    \/ Construct
    \/ Build
    \/ Resolve
    \/ ActivationsForJd
    \/ RawActivationsForJd

SpecBodygraph == InitBodygraph /\ [][NextBodygraph]_vars

(***************************************************************************)
(* Bodygraph builds running side by side                                   *)
(*                                                                         *)
(* Each worker builds the bodygraph of its own BirthInfo.  A build calls   *)
(* geocode_place three times (birth_jd_ut for the conscious list, and      *)
(* twice inside design_jd_ut); the calls of different workers interleave   *)
(* at the file operations: the read of the cache file, the open for        *)
(* writing, which empties the file, and the dump.                          *)
(***************************************************************************)
Workers == {1, 2}

\* the cache file as an earlier run left it
WarmFile == JsonFile(Store(EmptyCache, Place("Paris", "France"), <<48, 2>>))

Failed(error) == [raised |-> TRUE, error |-> error, value |-> NoGraph]

NoResult == [raised |-> FALSE, error |-> "", value |-> NoGraph]

\* a build about to make its first call of geocode_place
Worker(bi) ==
    [bi |-> bi, pc |-> "read", call |-> 1, local |-> EmptyCache, pending |-> Missing,
     got |-> <<>>, result |-> NoResult]

\* self.localtime.jd(self.timezone), geocode_place having returned coords
birth_jd_at(bi, coords) ==
    LocalTime_jd(Stamp(bi.localtime.year, bi.localtime.month, bi.localtime.day,
                       bi.localtime.quarter, timezone_at(coords)))

\* conscious_activations, geocode_place having returned coords
ConsciousAt(bi, coords, tr, sky) ==
    RawBodyGraph_activations_for_jd(SkyAt(sky, SunTrackAt(tr, birth_jd_at(bi, coords)), 0))

\* the build after its three calls of geocode_place returned got[1..3]
GraphFromCoords(bi, got, tr, sky) ==
    LET run == design_run(tr, birth_jd_at(bi, got[2]))
        unconscious ==
            RawBodyGraph_activations_for_jd(
                SkyAt(sky, SunTrackAt(tr, birth_jd_at(bi, got[3])), run.jd))
    IN  IF unconscious.raised
        THEN Failed(unconscious.error)
        ELSE [raised |-> FALSE, error |-> "",
              value |-> [birth_jd |-> birth_jd_at(bi, got[1]),
                         design_jd |-> [birth |-> birth_jd_at(bi, got[3]), offset |-> run.jd],
                         conscious |-> ConsciousAt(bi, got[1], tr, sky).acts,
                         unconscious |-> unconscious.acts]]

\* the build goes on after a call of geocode_place returned coords: the
\* timezone lookup may raise, after the first call the conscious list is
\* built, after the third the rest is computed
Advance(wk, coords, tr, sky) ==
    IF timezone_at(coords) = "None"
    THEN [wk EXCEPT !.pc = "done", !.result = Failed("RuntimeError")]
    ELSE IF wk.call = 1 /\ ConsciousAt(wk.bi, coords, tr, sky).raised
    THEN [wk EXCEPT !.pc = "done",
                    !.result = Failed(ConsciousAt(wk.bi, coords, tr, sky).error)]
    ELSE IF wk.call = 3
    THEN [wk EXCEPT !.pc = "compute", !.got = Append(@, coords)]
    ELSE [wk EXCEPT !.pc = "read", !.call = @ + 1, !.got = Append(@, coords)]

\* geocode_place up to `if place in cache`: the file is read as it is now
GeoRead(w) ==
    /\ workers[w].pc = "read"
    /\ LET wk == workers[w]
           cache == LoadCache(cacheFile)
           place == Place(wk.bi.city, wk.bi.country)
       IN  workers' = [workers EXCEPT ![w] =
                          IF cache[place] # Missing
                          THEN Advance(wk, cache[place], track, eph)
                          ELSE [wk EXCEPT !.pc = "contact", !.local = cache]]
    /\ UNCHANGED <<coreVars, timeVars, geoVars, infoVars, libVars>>

\* geolocator.geocode(place), and the RuntimeError if it gave no location
GeoContact(w) ==
    /\ workers[w].pc = "contact"
    /\ \E answer \in GeocoderAnswers :
          workers' = [workers EXCEPT ![w] =
                         IF answer.kind = "loc"
                         THEN [@ EXCEPT !.pc = "open", !.pending = answer.coords]
                         ELSE [@ EXCEPT !.pc = "done", !.result = Failed("RuntimeError")]]
    /\ UNCHANGED <<coreVars, timeVars, geoVars, infoVars, libVars>>

\* open(cache_path, "w"): the file is emptied
GeoOpen(w) ==
    /\ workers[w].pc = "open"
    /\ cacheFile' = Corrupt
    /\ workers' = [workers EXCEPT ![w].pc = "dump"]
    /\ UNCHANGED <<coreVars, timeVars, calls, infoVars, libVars>>

\* json.dump(cache, f) of what this call had read plus its own entry, and
\* the return
GeoDump(w) ==
    /\ workers[w].pc = "dump"
    /\ LET wk == workers[w]
           place == Place(wk.bi.city, wk.bi.country)
       IN  /\ cacheFile' = JsonFile(Store(wk.local, place, wk.pending))
           /\ workers' = [workers EXCEPT ![w] = Advance(wk, wk.pending, track, eph)]
    /\ UNCHANGED <<coreVars, timeVars, calls, infoVars, libVars>>

\* the solver run and the unconscious list
Compute(w) ==
    /\ workers[w].pc = "compute"
    /\ LET wk == workers[w]
       IN  workers' = [workers EXCEPT ![w] =
                          [wk EXCEPT !.pc = "done",
                                     !.result = GraphFromCoords(wk.bi, wk.got, track, eph)]]
    /\ UNCHANGED <<coreVars, timeVars, geoVars, infoVars, libVars>>

\* the subjects living at an address
SubjectsIn(a) == {BirthInfo(strftime(lt), lt, a[1], a[2]) : lt \in LocalTimes}

InitWorkers ==
    /\ GATE_RANGES = _build_gate_ranges
    /\ lon = 0
    /\ resolved = NotCalled
    /\ eph \in GraphSkies
    /\ out = NotBuilt
    /\ activations = NotBuilt
    /\ asked = <<>>
    /\ SolverIdle
    /\ TimeIdle
    /\ cacheFile = WarmFile
    /\ calls = <<>>
    /\ InfoIdle
    /\ LibIdle
    /\ \E a \in SubjectsIn(<<"Paris", "France">>) :
          workers = <<Worker(a),
                      Worker(BirthInfo(DateStr(2000, 1, 1, TRUE),
                                       [year |-> 2000, month |-> 1, day |-> 1, quarter |-> 2],
                                       "Lima", "Peru"))>>

NextWorkers ==
    \E w \in Workers :
        \/ GeoRead(w)
        \/ GeoContact(w)
        \/ GeoOpen(w)
        \/ GeoDump(w)
        \/ Compute(w)

SpecWorkers == InitWorkers /\ [][NextWorkers]_vars

(***************************************************************************)
(* _angdiff_signed on doubles                                              *)
(*                                                                         *)
(* The doubles have a significand of Precision bits and are counted in     *)
(* quanta of 2^(8 - Precision) degree, the distance of neighbouring        *)
(* doubles below 256 degrees.                                              *)
(***************************************************************************)
Precision == 8

\* quanta in a degree
Quanta == 2 ^ (Precision - 8)

\* d = (a - b + 180.0) % 360.0 - 180.0, each operation on doubles
angdiff_signed_on_doubles(a, b) ==
    RoundToDouble(
        float_rem(RoundToDouble(RoundToDouble(a - b, Quanta) + 180 * Quanta, Quanta),
                  360 * Quanta, Quanta)
          - 180 * Quanta,
        Quanta)

\* the doubles in [0, 360)
Doubles360 == {x \in 0 .. (360 * Quanta - 1) : IsDouble(x, Quanta)}

\* the current longitudes tried: 0, the least positive double, and some more
Currents == {0, 1, 90 * Quanta, 200 * Quanta, 358 * Quanta}

InitAngdiff ==
    /\ GATE_RANGES = _build_gate_ranges
    /\ lon = 0
    /\ resolved = NotCalled
    /\ eph = NoProvider
    /\ out = NotBuilt
    /\ activations = NotBuilt
    /\ asked = <<>>
    /\ SolverIdle
    /\ TimeIdle
    /\ GeoIdle
    /\ InfoIdle
    /\ workers = NoWorkers
    /\ \E a \in Currents, b \in Doubles360 :
          angdiff = [a |-> a, b |-> b, d |-> 0, pc |-> "called"]
    /\ relationships = <<>>
    /\ ops = <<>>

\* err = _angdiff_signed(lon, target)
AngdiffSigned ==
    /\ angdiff.pc = "called"
    /\ angdiff' = [angdiff EXCEPT !.d = angdiff_signed_on_doubles(angdiff.a, angdiff.b),
                                  !.pc = "returned"]
    /\ UNCHANGED <<coreVars, timeVars, geoVars, infoVars, workers, relationships, ops>>

NextAngdiff == AngdiffSigned

SpecAngdiff == InitAngdiff /\ [][NextAngdiff]_vars

(***************************************************************************)
(* The solver under a provider whose Sun stands still or runs backwards    *)
(***************************************************************************)
\* pairs of speeds (track.vA, track.vB): zero in one of the alternating runs
StallSpeeds == {<<SpeedScale, 0>>, <<0, SpeedScale>>, <<9500, 0>>}

StallRuns == {TicksPerDay, 45 * TicksPerDay, 300 * TicksPerDay}

\* the Sun standing still in every second run, and the Sun running backwards
\* before birth
StallTracks ==
    {[birthLon |-> b, vA |-> v[1], vB |-> v[2], run |-> w] :
        b \in BirthSunLons, v \in StallSpeeds, w \in StallRuns}
      \cup {[birthLon |-> b, vA |-> SpeedScale, vB |-> 0 - SpeedScale,
             run |-> 300 * TicksPerDay] : b \in BirthSunLons}

InitStallSolver ==
    /\ GATE_RANGES = _build_gate_ranges
    /\ lon = 0
    /\ resolved = NotCalled
    /\ eph = NoProvider
    /\ out = NotBuilt
    /\ activations = NotBuilt
    /\ asked = <<>>
    /\ track \in StallTracks
    /\ pc = "idle"
    /\ target = 0
    /\ jd = 0
    /\ queries = 0
    /\ RestIdle

NextStallSolver == FindDesignJd \/ Iterate

SpecStallSolver == InitStallSolver /\ [][NextStallSolver]_vars

(***************************************************************************)
(* The resolver on longitudes outside [0, 360)                             *)
(***************************************************************************)
\* the turns added to a longitude
Turns == {0 - 2, 0 - 1, 0, 1, 2}

\* longitudes of two turns below zero to three turns: every 45th grid point
\* of the circle with whole turns added, and the doubles next to zero
AnyLongitudes ==
    {x \in {45 * n + k * Full : n \in 0 .. (Full \div 45), k \in Turns}
             \cup {0 - 2, 0 - 1, 1} :
        IsDouble(x, UnitsPerDegree)}

InitResolveAny ==
    /\ GATE_RANGES = _build_gate_ranges
    /\ lon \in AnyLongitudes
    /\ resolved = NotCalled
    /\ eph = NoProvider
    /\ out = NotBuilt
    /\ activations = NotBuilt
    /\ asked = <<>>
    /\ SolverIdle
    /\ RestIdle

NextResolveAny == Resolve

SpecResolveAny == InitResolveAny /\ [][NextResolveAny]_vars

(***************************************************************************)
(* The methods of the Planet enum as operations                            *)
(***************************************************************************)
\* the names Planet.<name> can be written with, aliases included
PlanetNames == {PlanetDefs[i][1] : i \in 1 .. Len(PlanetDefs)}

\* providers differing in the Sun's longitude and in the body that raises
PlanetSkies ==
    {e \in Providers :
        /\ e["TRUE_NODE"] = Answer(0)
        /\ e["MOON"] = Answer(_d(TA, 15, 0, 0))
        /\ e["EARTH"] = Answer(0)}

InitPlanet ==
    /\ GATE_RANGES = _build_gate_ranges
    /\ lon = 0
    /\ resolved = NotCalled
    /\ eph \in PlanetSkies
    /\ out = NotBuilt
    /\ activations = NotBuilt
    /\ asked = <<>>
    /\ SolverIdle
    /\ RestIdle

\* Planet.<name>.lon_ut(jd_ut)
LonUt ==
    /\ \E name \in PlanetNames : asked' = lon_ut(eph, Planet(name)).asked
    /\ UNCHANGED <<GATE_RANGES, resolverVars, eph, out, activations, solverVars, restVars>>

\* Planet.<name>.speed_ut(jd_ut)
SpeedUt ==
    /\ \E name \in PlanetNames : asked' = speed_ut(eph, Planet(name)).asked
    /\ UNCHANGED <<GATE_RANGES, resolverVars, eph, out, activations, solverVars, restVars>>

NextPlanet == LonUt \/ SpeedUt \/ RawActivationsForJd

SpecPlanet == InitPlanet /\ [][NextPlanet]_vars

(***************************************************************************)
(* BirthInfo in the hands of its caller                                    *)
(*                                                                         *)
(* BirthInfo is a pydantic BaseModel whose model_config sets neither       *)
(* frozen nor validate_assignment: an assignment to a field is accepted    *)
(* as it is, and no validator runs again.                                  *)
(***************************************************************************)
\* bi.date = <str> or bi.localtime = <LocalTime>
SetAttr ==
    /\ info.state = "object"
    /\ \/ \E date \in DateStrs : info' = [info EXCEPT !.date = date]
       \/ \E localtime \in LocalTimes : info' = [info EXCEPT !.localtime = localtime]
    /\ UNCHANGED <<coreVars, timeVars, geoVars, effects, reads, graphs, workers, libVars>>

NextBirthInfoHeld == Construct \/ Read \/ SetAttr

SpecBirthInfoHeld == InitBirthInfo /\ [][NextBirthInfoHeld]_vars

(***************************************************************************)
(* RelationshipStore                                                       *)
(***************************************************************************)
\* Relationship(from_id=..., to_id=..., relationship=..., notes=...)
Relationship(from_id, to_id, relationship, notes) ==
    [from_id |-> from_id, to_id |-> to_id, relationship |-> relationship, notes |-> notes]

\* rel.from_id == from_id and rel.to_id == to_id
SamePair(rel, from_id, to_id) == rel.from_id = from_id /\ rel.to_id = to_id

\* the first element of the list for the pair, the one the loop reaches
FirstFor(rels, from_id, to_id) ==
    CHOOSE i \in DOMAIN rels :
        /\ SamePair(rels[i], from_id, to_id)
        /\ \A j \in 1 .. (i - 1) : ~SamePair(rels[j], from_id, to_id)

\* the append made without looking for the pair
add_relationship_append(rels, from_id, to_id, relationship, notes) ==
    Append(rels, Relationship(from_id, to_id, relationship, notes))

\* for rel in self.relationships: if the pair is rel's, set rel.relationship
\* and rel.notes and return; else append a new Relationship
add_relationship(rels, from_id, to_id, relationship, notes) ==
    IF \E i \in DOMAIN rels : SamePair(rels[i], from_id, to_id)
    THEN [rels EXCEPT ![FirstFor(rels, from_id, to_id)] =
             [@ EXCEPT !.relationship = relationship, !.notes = notes]]
    ELSE Append(rels, Relationship(from_id, to_id, relationship, notes))

\* [r for r in self.relationships if not (the pair is r's)]
remove_relationship(rels, from_id, to_id) ==
    SelectSeq(rels, LAMBDA r : ~SamePair(r, from_id, to_id))

\* the calls followed on one store
MaxOps == 3

PersonIds == {1, 2}

Labels == {"mother", "friend"}

\* notes: the default "" and a text
Notes == {"", "met at a workshop"}

\* RelationshipStore(): relationships is list()
InitRelationships ==
    /\ CoreIdle
    /\ TimeIdle
    /\ GeoIdle
    /\ InfoIdle
    /\ workers = NoWorkers
    /\ angdiff = NoAngdiff
    /\ relationships = <<>>
    /\ ops = <<>>

\* store.add_relationship(from_id, to_id, relationship, notes)
AddRelationship ==
    /\ Len(ops) < MaxOps
    /\ \E from_id \in PersonIds, to_id \in PersonIds, relationship \in Labels, notes \in Notes :
          /\ relationships' = add_relationship(relationships, from_id, to_id, relationship, notes)
          /\ ops' = Append(ops, [op |-> "add", from_id |-> from_id, to_id |-> to_id,
                                 relationship |-> relationship, notes |-> notes])
    /\ UNCHANGED <<coreVars, timeVars, geoVars, infoVars, workers, angdiff>>

\* store.remove_relationship(from_id, to_id)
RemoveRelationship ==
    /\ Len(ops) < MaxOps
    /\ \E from_id \in PersonIds, to_id \in PersonIds :
          /\ relationships' = remove_relationship(relationships, from_id, to_id)
          /\ ops' = Append(ops, [op |-> "remove", from_id |-> from_id, to_id |-> to_id,
                                 relationship |-> "", notes |-> ""])
    /\ UNCHANGED <<coreVars, timeVars, geoVars, infoVars, workers, angdiff>>

NextRelationships == AddRelationship \/ RemoveRelationship

SpecRelationships == InitRelationships /\ [][NextRelationships]_vars

(***************************************************************************)
(* Properties of the table and the resolver                                *)
(***************************************************************************)
ByStart(a, b) == a[2] < b[2]

SortedRanges == SortSeq(GATE_RANGES, ByStart)

Contains(arc, x) == arc[2] <= x /\ x < arc[3]

ArcsContaining(x) == {i \in 1 .. Len(GATE_RANGES) : Contains(GATE_RANGES[i], x)}

\* C1: sorted by start, the arcs tile the circle: the first starts at 0, the
\* last ends at 360, each arc ends where the next starts, and the longitude at
\* hand lies in exactly one arc.
C1_ArcsTileCircle ==
    LET s == SortedRanges
    IN  /\ Len(s) > 0
        /\ s[1][2] = 0
        /\ s[Len(s)][3] = Full
        /\ \A i \in 1 .. (Len(s) - 1) : s[i][3] = s[i + 1][2]
        /\ Cardinality(ArcsContaining(lon)) = 1

C1_Witness ==
    /\ Len(GATE_RANGES) = 65
    /\ lon = _d(PI, 28, 15, 0)
    /\ resolved = Returned(25, 1)

\* C2: every longitude in [0, 360) resolves to a gate in 1..64 and a line in
\* 1..6; the no-gate-found error is never raised.
C2_ResolveTotal ==
    resolved # NotCalled =>
        /\ ~resolved.raised
        /\ resolved.gate \in 1 .. 64
        /\ resolved.line \in 1 .. 6

C2_Witness ==
    /\ lon = Full - 1
    /\ resolved # NotCalled
    /\ ~resolved.raised

\* C3: a longitude equal to the shared boundary of two adjacent arcs (end of
\* gate A's arc, start of gate B's arc) resolves to gate B, line 1, not gate A.
C3_BoundaryGoesToNextGate ==
    LET s == SortedRanges
    IN  \A i \in 1 .. (Len(s) - 1) :
            (resolved # NotCalled /\ lon = s[i][3] /\ lon = s[i + 1][2]) =>
                /\ resolved = Returned(s[i + 1][1], 1)
                /\ resolved.gate # s[i][1]

C3_Witness ==
    /\ lon = _d(AR, 3, 52, 30)
    /\ resolved = Returned(17, 1)

\* C4: within one arc [start, end) of span s, line k is returned exactly for
\* the longitudes in [start + (k-1)*s/6, start + k*s/6), for k = 1..6.
C4_LineIsSixthOfArc ==
    resolved # NotCalled =>
        \A i \in ArcsContaining(lon) :
            LET start == GATE_RANGES[i][2]
                span == GATE_RANGES[i][3] - GATE_RANGES[i][2]
            IN  \A k \in 1 .. 6 :
                    (resolved.line = k) <=>
                        /\ (k - 1) * span <= 6 * (lon - start)
                        /\ 6 * (lon - start) < k * span

C4_Witness ==
    /\ lon = _d(AR, 9, 30, 0) - 1
    /\ resolved = Returned(17, 6)

\* the tail arc (ending at 360) and the head arc (starting at 0) of the gate
\* that crosses 360 -> 0
TailArc == CHOOSE a \in {GATE_RANGES[i] : i \in 1 .. Len(GATE_RANGES)} : a[3] = Full

HeadArc == CHOOSE a \in {GATE_RANGES[i] : i \in 1 .. Len(GATE_RANGES)} : a[2] = 0

\* C5: for the gate crossing 360 -> 0 the line is a sixth of the combined span
\* of the tail and head arcs, the offset measured from the tail arc's start
\* through 360 into the head arc.
C5_WrapGateUsesCombinedSpan ==
    (resolved # NotCalled /\ ~resolved.raised /\ resolved.gate = TailArc[1]) =>
        LET span == (Full - TailArc[2]) + HeadArc[3]
            offset == IF lon >= TailArc[2]
                      THEN lon - TailArc[2]
                      ELSE (Full - TailArc[2]) + lon
        IN  /\ TailArc[1] = HeadArc[1]
            /\ resolved.line = ((6 * offset) \div span) + 1

(***************************************************************************)
(* Properties of the activation set builders                               *)
(***************************************************************************)
HasList(r) == ~r.raised /\ r.acts # <<>>

PlanetsOf(r) == [i \in 1 .. Len(r.acts) |-> r.acts[i].planet]

CanonicalOrder ==
    <<"Sun", "Earth", "Moon", "TrueNode", "SouthNode", "Mercury", "Venus", "Mars",
      "Jupiter", "Saturn", "Uranus", "Neptune", "Pluto">>

CanonicalOrderRaw ==
    <<"SUN", "EARTH", "MOON", "TRUE_NODE", "SOUTH_NODE", "MERCURY", "VENUS", "MARS",
      "JUPITER", "SATURN", "URANUS", "NEPTUNE", "PLUTO">>

Range(f) == {f[i] : i \in DOMAIN f}

OncePerBody(r, bodies) ==
    /\ Len(r.acts) = 13
    /\ Range(PlanetsOf(r)) = Range(bodies)
    /\ \A i, j \in 1 .. Len(r.acts) : r.acts[i].planet = r.acts[j].planet => i = j

\* C6: a returned activation list has exactly 13 entries, one for each of Sun,
\* Earth, Moon, North Node, South Node, Mercury .. Pluto, no body twice; for
\* activations_for_jd and for RawBodyGraph._activations_for_jd.
C6_ThirteenOncePerBody ==
    /\ HasList(out) => OncePerBody(out, CanonicalOrder)
    /\ HasList(activations) => OncePerBody(activations, CanonicalOrderRaw)

\* C7: a returned activation list is in the canonical order Sun, Earth, Moon,
\* North Node, South Node, Mercury, Venus, Mars, Jupiter, Saturn, Uranus,
\* Neptune, Pluto.
C7_CanonicalOrder ==
    /\ HasList(out) => PlanetsOf(out) = CanonicalOrder
    /\ HasList(activations) => PlanetsOf(activations) = CanonicalOrderRaw

GateLine(a) == <<a.gate, a.line>>

ResolvedOpposite(x) ==
    LET r == gate_line_from_longitude(GATE_RANGES, (x + 180 * UnitsPerDegree) % Full)
    IN  <<r.gate, r.line>>

OppositionHolds(r, sun, earth, north, south) ==
    \A i \in 1 .. Len(r.acts) :
        /\ r.acts[i].planet = earth => GateLine(r.acts[i]) = ResolvedOpposite(eph[sun].lon)
        /\ r.acts[i].planet = south => GateLine(r.acts[i]) = ResolvedOpposite(eph[north].lon)

\* C10: in a returned list the Earth activation is the resolver's result for
\* (sunLongitude + 180) mod 360 and the South Node activation the result for
\* (northNodeLongitude + 180) mod 360.
C10_EarthAndSouthNodeOpposite ==
    /\ HasList(out) => OppositionHolds(out, "SUN", "Earth", "TRUE_NODE", "SouthNode")
    /\ HasList(activations) =>
           OppositionHolds(activations, "SUN", "EARTH", "TRUE_NODE", "SOUTH_NODE")

\* what does hold of each builder, for reference
RawListIsThirteen == HasList(activations) => OncePerBody(activations, CanonicalOrderRaw)

RawListOrder ==
    HasList(activations) =>
        PlanetsOf(activations) =
            <<"SUN", "EARTH", "MOON", "MERCURY", "VENUS", "MARS", "JUPITER", "SATURN",
              "URANUS", "NEPTUNE", "PLUTO", "TRUE_NODE", "SOUTH_NODE">>

RawOpposition ==
    HasList(activations) =>
        OppositionHolds(activations, "SUN", "EARTH", "TRUE_NODE", "SOUTH_NODE")

OrigListOrder ==
    HasList(out) =>
        PlanetsOf(out) =
            <<"Sun", "Earth", "Earth", "Moon", "TrueNode", "SouthNode", "Mercury", "Venus",
              "Mars", "Jupiter", "Saturn", "Uranus", "Neptune", "Pluto">>

\* the bodies RawBodyGraph._activations_for_jd asks the provider for
QueriedByRaw ==
    {PlanetMembers(1)[i].value : i \in 1 .. Len(PlanetMembers(1))} \ {"EARTH", "999"}

\* C13: when the provider fails for a body that a builder queries, the
\* builder's call ends with the provider's exception itself and returns no
\* list, neither a partial one nor one with a default in the body's place.
C13_ProviderFailurePropagates ==
    /\ (out # NotBuilt /\ \E b \in Bodies : eph[b].fails)
          => out = RaisedWith(ProviderError.error)
    /\ (activations # NotBuilt /\ \E b \in QueriedByRaw : eph[b].fails)
          => activations = RaisedWith(ProviderError.error)

C13_Witness ==
    /\ eph["PLUTO"].fails
    /\ out = RaisedWith(ProviderError.error)
    /\ activations = RaisedWith(ProviderError.error)

(***************************************************************************)
(* Properties of the design-time solver                                    *)
(***************************************************************************)
\* the error of the Sun's longitude at the returned jd against
\* (birthSunLon - 88) mod 360, computed from the track itself
FinalError ==
    _angdiff_signed((track.birthLon + SunArc(track, jd)) % FullTicks,
                    (track.birthLon + (360 - 88) * TicksPerDegree) % FullTicks)

\* C8: with Sun speeds within [0.95, 1.02] the solver returns by convergence
\* within the 20-query cap: at the returned JD the Sun's longitude is within
\* 1e-6 degree of (birthSunLon - 88) mod 360.
C8_SolverConverges ==
    pc = "done" =>
        /\ queries <= 20
        /\ Abs(FinalError) < TicksPerDegree \div 1000000

C8_Witness ==
    /\ pc = "done"
    /\ queries >= 4
    /\ track.birthLon = 50 * TicksPerDegree
    /\ track.vA # track.vB

\* C9: the returned design JD is earlier than the birth JD, by more than 80
\* and less than 95 days.
C9_DesignBeforeBirth ==
    pc = "done" =>
        /\ jd < 0
        /\ 80 * TicksPerDay < 0 - jd
        /\ 0 - jd < 95 * TicksPerDay

C9_Witness ==
    /\ pc = "done"
    /\ 0 - jd > 92 * TicksPerDay
    /\ track.vA = 9500

\* the stub provider: the Sun at 280 degrees at birth, moving 1.0 degree a day
StubTrack ==
    /\ track.birthLon = 280 * TicksPerDegree
    /\ track.vA = SpeedScale
    /\ track.vB = SpeedScale

\* C19: under the stub provider the target is 192 degrees, and the solver
\* started from birth_jd - 88 returns after at most 5 queries a JD at which
\* the Sun is within 1e-6 degree of the target.
C19_StubScenario ==
    (StubTrack /\ pc = "done") =>
        /\ target = 192 * TicksPerDegree
        /\ queries <= 5
        /\ Abs(_angdiff_signed(calc_sun_ut(track, jd).lon, 192 * TicksPerDegree))
              < TicksPerDegree \div 1000000

C19_Witness == StubTrack /\ pc = "done" /\ queries >= 1

\* C20: whatever the provider answers, the solver makes at most 20 Sun
\* queries and then returns: it raises nothing, a pass that breaks early
\* returns the guess it tested, and a call returns in the end.
C20_SolverAlwaysReturns ==
    /\ [](queries <= 20 /\ pc # "raised")
    /\ [][(pc = "loop" /\ pc' = "done" /\ queries' < 20) => jd' = jd]_vars
    /\ <>(pc = "done")

C20_Witness ==
    /\ pc = "done"
    /\ queries = 20
    /\ jd # 0 - GuessDays * TicksPerDay

(***************************************************************************)
(* Properties of the Julian Day conversion                                 *)
(***************************************************************************)
\* days from 0001-01-01 to the date, counted year by year and month by month
RECURSIVE DaysBeforeMonth(_, _)
DaysBeforeMonth(year, month) ==
    IF month = 1 THEN 0 ELSE DaysBeforeMonth(year, month - 1) + DaysInMonth(year, month - 1)

Ordinal(year, month, day) ==
    LET y == year - 1
    IN  365 * y + (y \div 4) - (y \div 100) + (y \div 400) + DaysBeforeMonth(year, month) + day

\* the UTC instant a local date-time names, in quarters of an hour
Instant(stamp) ==
    Ordinal(stamp.year, stamp.month, stamp.day) * QuartersPerDay
      + stamp.quarter - ZoneInfo(stamp.tz)

SameWallClock(a, b) ==
    /\ a.year = b.year
    /\ a.month = b.month
    /\ a.day = b.day
    /\ a.quarter = b.quarter

C17_CachedPlaceIsReused ==
    \A i \in 1 .. Len(calls) : \A j \in (i + 1) .. Len(calls) :
        (calls[i].place = calls[j].place /\ ~calls[i].raised) =>
            /\ ~calls[j].raised
            /\ calls[j].value = calls[i].value
            /\ ~calls[j].contacted

C17_Witness ==
    /\ Len(calls) = 3
    /\ calls[1].place = Place("Paris", "France")
    /\ calls[1].contacted
    /\ ~calls[1].raised
    /\ calls[2].place = Place("Lima", "Peru")
    /\ calls[2].contacted
    /\ ~calls[2].raised
    /\ calls[3] = GeoReturn(Place("Paris", "France"), calls[1].value, FALSE)

(***************************************************************************)
(* Properties of BirthInfo                                                 *)
(***************************************************************************)
DateDiffers(bi) ==
    \/ bi.date.year # bi.localtime.year
    \/ bi.date.month # bi.localtime.month
    \/ bi.date.day # bi.localtime.day

\* C12: BirthInfo(...) with a date field that is another day than the date
\* of its local time raises at construction: no object results, and no
\* geocoding, timezone lookup, ephemeris query or solver run is made.
C12_DateMismatchFailsAtConstruction ==
    (info.state # "none" /\ DateDiffers(info)) =>
        /\ info.state = "ValidationError"
        /\ effects = NoEffects
        /\ reads = <<>>

C12_Witness ==
    /\ info.state = "ValidationError"
    /\ info.date = DateStr(1999, 12, 31, TRUE)
    /\ info.localtime.year = 2000

\* C16: coordinates, timezone, birth JD and design JD are computed at the
\* first read and kept: later reads give the same value and run no
\* geocoding lookup, timezone resolution, ephemeris query or solver again.
C16_DerivedValuesComputedOnce ==
    /\ effects.geocode <= 1
    /\ effects.timezone <= 1
    /\ effects.solver <= 1
    /\ \A i \in 1 .. Len(reads) : \A j \in (i + 1) .. Len(reads) :
          (reads[i].name = reads[j].name /\ ~reads[i].raised) =>
              (~reads[j].raised /\ reads[j].value = reads[i].value)

\* reference: the values of repeated reads do agree
RepeatedReadsAgree ==
    \A i \in 1 .. Len(reads) : \A j \in (i + 1) .. Len(reads) :
        (reads[i].name = reads[j].name /\ ~reads[i].raised) =>
            (~reads[j].raised /\ reads[j].value = reads[i].value)

C14_TableNeverChanges ==
    /\ [](GATE_RANGES = _build_gate_ranges)
    /\ [][GATE_RANGES' = GATE_RANGES]_vars

C14_Witness ==
    /\ resolved # NotCalled
    /\ out # NotBuilt
    /\ activations # NotBuilt
    /\ Len(graphs) = 2
    /\ Len(GATE_RANGES) = 65

(***************************************************************************)
(* Properties of builds running side by side                               *)
(***************************************************************************)
\* what the build of bi gives when it runs alone from the cache file file,
\* the geocoder answering `answer` if it is contacted
Alone(bi, file, answer) ==
    LET r == RawBodyGraph(bi, file, NoEffects, answer, track, eph)
    IN  [raised |-> r.raised, error |-> r.error, value |-> r.value]

\* C15: builds for different subjects running side by side, interleaved in
\* any way, each give what the build gives when it runs alone.
C15_ConcurrentBuildsIndependent ==
    \A w \in DOMAIN workers :
        workers[w].pc = "done" =>
            \E answer \in GeocoderAnswers :
                workers[w].result = Alone(workers[w].bi, WarmFile, answer)

\* reference: a build that ran with the other not yet started gives what it
\* gives alone
SerialBuildAgrees ==
    \A w \in DOMAIN workers : \A v \in DOMAIN workers :
        (w # v /\ workers[w].pc = "done" /\ workers[v] = Worker(workers[v].bi)) =>
            \E answer \in GeocoderAnswers :
                workers[w].result = Alone(workers[w].bi, WarmFile, answer)

(***************************************************************************)
(* Properties of the signed angular error                                  *)
(***************************************************************************)
\* (a - b) wrapped into [-180, 180), in real numbers
WrappedDifference(a, b) == ((a - b + 180 * Quanta) % (360 * Quanta)) - 180 * Quanta

\* C21: for current and target longitudes in [0, 360) the signed error lies
\* in [-180, +180) and is, to the rounding of doubles, (current - target)
\* modulo 360.
C21_ErrorInHalfOpenRange ==
    angdiff.pc = "returned" =>
        /\ 0 - 180 * Quanta <= angdiff.d
        /\ angdiff.d < 180 * Quanta
        /\ \E k \in {0 - 1, 0, 1} :
              Abs(angdiff.d - WrappedDifference(angdiff.a, angdiff.b) - k * 360 * Quanta)
                 <= 2 * Ulp(360 * Quanta, Quanta)

\* the error is, to the rounding of doubles, (current - target) modulo 360
CongruentToDifference ==
    angdiff.pc = "returned" =>
        \E k \in {0 - 1, 0, 1} :
            Abs(angdiff.d - WrappedDifference(angdiff.a, angdiff.b) - k * 360 * Quanta)
               <= 2 * Ulp(360 * Quanta, Quanta)

\* a current longitude just above 0 with a target just below 360 gives a
\* small positive error
SmallPositiveAcrossZero ==
    (angdiff.pc = "returned" /\ angdiff.a = 1 /\ angdiff.b >= 350 * Quanta) =>
        (0 < angdiff.d /\ angdiff.d <= 11 * Quanta + Ulp(360 * Quanta, Quanta))

(***************************************************************************)
(* Properties of the solver's step                                         *)
(***************************************************************************)
\* err / by in ticks of a day, by in 1e-4 degree per day and not zero
ErrOver(err, by) ==
    IF by > 0 THEN MulDiv(err, SpeedScale, by) ELSE 0 - MulDiv(err, SpeedScale, 0 - by)

\* the error of the guess jd against the target
ErrNow == _angdiff_signed(calc_sun_ut(track, jd).lon, target)

\* C22: at a guess that has not converged, a Sun speed of exactly zero steps
\* the guess by -error/0.9856 and nothing is divided by zero; every other
\* speed steps it by -error/speed.
C22_StepFallsBackOnZeroSpeed ==
    [][(pc = "loop" /\ ~(Abs(ErrNow) < TicksPerDegree \div 1000000)) =>
          /\ pc' # "raised"
          /\ jd' = IF calc_sun_ut(track, jd).speed = 0
                   THEN jd - ErrOver(ErrNow, 9856)
                   ELSE jd - ErrOver(ErrNow, calc_sun_ut(track, jd).speed)]_vars

\* a call that took three steps at speed zero and then converged further back
C22_Witness ==
    /\ pc = "done"
    /\ track.vB = 0
    /\ track.run = 300 * TicksPerDay
    /\ queries = 5
    /\ jd < 0 - 380 * TicksPerDay

(***************************************************************************)
(* Properties of the resolver outside [0, 360)                             *)
(***************************************************************************)
\* C23: resolve is periodic: for every longitude x, negative ones and those
\* of 360 or more included, resolve(x) is resolve(x mod 360) with x mod 360
\* taken in [0, 360).
C23_ResolvePeriodic ==
    resolved # NotCalled =>
        resolved = ScanRanges(GATE_RANGES, _norm360_exact(lon), 1)

\* resolve(x) is resolve(x mod 360) wherever x % 360.0 is below 360.0
PeriodicBelowFullTurn ==
    (resolved # NotCalled /\ _norm360(lon) < Full) =>
        resolved = ScanRanges(GATE_RANGES, _norm360_exact(lon), 1)

\* resolve(360) is resolve(0)
FullTurnIsZero ==
    (resolved # NotCalled /\ lon = Full) => resolved = ScanRanges(GATE_RANGES, 0, 1)

(***************************************************************************)
(* Properties of the calls made to the Ephemeris Provider                  *)
(***************************************************************************)
\* the 11 bodies with a position of their own
QueryableBodies ==
    {"SUN", "MOON", "MERCURY", "VENUS", "MARS", "JUPITER", "SATURN", "URANUS",
     "NEPTUNE", "PLUTO", "TRUE_NODE"}

Asked == {asked[i] : i \in 1 .. Len(asked)}

\* C24: a builder calls the provider only for the 11 bodies Sun, Moon,
\* Mercury, Venus, Mars, Jupiter, Saturn, Uranus, Neptune, Pluto and North
\* Node, never for Earth or the South Node.
C24_OnlyQueryableBodiesAsked == Asked \subseteq QueryableBodies

\* RawBodyGraph._activations_for_jd asks for the 11 bodies only, and for all
\* of them when nothing raises
RawAsksQueryableBodies ==
    LET r == RawBodyGraph_activations_for_jd(eph)
        ids == {r.asked[i] : i \in 1 .. Len(r.asked)}
    IN  /\ ids \subseteq QueryableBodies
        /\ ~r.raised => ids = QueryableBodies

\* C25: the South Node's id 999 is never handed to the provider, whichever
\* method of Planet is called on whichever member.
C25_SentinelNeverReachesProvider == "999" \notin Asked

\* lon_ut hands the provider the ids of the queryable bodies and of Earth only
LonUtKeepsSentinel ==
    \A name \in PlanetNames :
        LET r == lon_ut(eph, Planet(name))
        IN  \A i \in 1 .. Len(r.asked) : r.asked[i] \in Bodies

(***************************************************************************)
(* Properties of a BirthInfo after its construction                        *)
(***************************************************************************)
\* C26: BirthInfo is immutable: in every state after a successful
\* construction its date field is the date part of its local time.
C26_DateMatchesLocalTimeForever ==
    info.state = "object" => info.date = strftime(info.localtime)

\* construction and the reads of properties leave the fields as they are
ReadsKeepFields ==
    [][(info.state = "object" /\ reads' # reads) => info' = info]_vars

(***************************************************************************)
(* Properties of the table's gates                                         *)
(***************************************************************************)
\* the entries of the table stored for gate g
ArcsOf(g) == {i \in 1 .. Len(GATE_RANGES) : GATE_RANGES[i][1] = g}

AcrossFrom(x) == gate_line_from_longitude(GATE_RANGES, (x + 180 * UnitsPerDegree) % Full)

\* C28: the table and its lines are symmetric under a rotation by 180
\* degrees: resolve((x + 180) mod 360) returns the same line as resolve(x).
C28_HalfTurnKeepsLine ==
    (resolved # NotCalled /\ ~resolved.raised) => AcrossFrom(lon).line = resolved.line

\* the same, for longitudes outside the split gate and outside the gate
\* across from it
HalfTurnKeepsLineOffSplitGate ==
    (resolved # NotCalled /\ ~resolved.raised
       /\ resolved.gate # TailArc[1] /\ AcrossFrom(lon).gate # TailArc[1]) =>
        AcrossFrom(lon).line = resolved.line

\* Sun and Earth, and North and South Node, carry the same line in a list
SameLineAcross(r, sun, earth, north, south) ==
    \A i, j \in 1 .. Len(r.acts) :
        (\/ (r.acts[i].planet = sun /\ r.acts[j].planet = earth)
         \/ (r.acts[i].planet = north /\ r.acts[j].planet = south))
            => r.acts[i].line = r.acts[j].line

OppositeBodiesShareLine ==
    /\ HasList(out) => SameLineAcross(out, "Sun", "Earth", "TrueNode", "SouthNode")
    /\ HasList(activations) =>
          SameLineAcross(activations, "SUN", "EARTH", "TRUE_NODE", "SOUTH_NODE")

(***************************************************************************)
(* Properties of the cache file under calls running side by side           *)
(***************************************************************************)
\* no call of geocode_place is between its read of the file and its return
NoCallInFlight == \A w \in DOMAIN workers : workers[w].pc \in {"read", "compute", "done"}

\* the place worker w's build asks geocode_place for
PlaceOf(w) == Place(workers[w].bi.city, workers[w].bi.country)

\* C29: when calls of geocode_place for different places ran side by side and
\* each returned a location, the cache file afterwards is JSON and holds an
\* entry for each of the places, the entry it started with included.
C29_CacheKeepsBothEntries ==
    (NoCallInFlight /\ \A w \in DOMAIN workers : Len(workers[w].got) >= 1) =>
        /\ cacheFile.kind = "JSON"
        /\ \A w \in DOMAIN workers : LoadCache(cacheFile)[PlaceOf(w)] # Missing

\* reference: calls made with the other build not yet started leave a JSON
\* file that holds the caller's place
SerialCallsKeepEntries ==
    \A w \in DOMAIN workers : \A v \in DOMAIN workers :
        (w # v /\ NoCallInFlight /\ Len(workers[w].got) >= 1
              /\ workers[v] = Worker(workers[v].bi)) =>
            /\ cacheFile.kind = "JSON"
            /\ LoadCache(cacheFile)[PlaceOf(w)] # Missing
            /\ LoadCache(cacheFile)[PlaceOf(v)] = LoadCache(WarmFile)[PlaceOf(v)]

(***************************************************************************)
(* Properties of the RelationshipStore                                     *)
(***************************************************************************)
\* the calls so far that named the pair
CallsFor(from_id, to_id) == SelectSeq(ops, LAMBDA o : SamePair(o, from_id, to_id))

\* the adds so far that named the pair
AddsFor(from_id, to_id) ==
    SelectSeq(ops, LAMBDA o : o.op = "add" /\ SamePair(o, from_id, to_id))

\* the relationships held for the pair
HeldFor(from_id, to_id) ==
    {i \in DOMAIN relationships : SamePair(relationships[i], from_id, to_id)}

\* C30: after any calls of add_relationship and remove_relationship on a
\* store that started empty, the store holds at most one relationship per
\* ordered pair (from_id, to_id), and it carries the label and the notes of
\* the latest add for the pair.
C30_OnePerPairFromLatestAdd ==
    \A from_id \in PersonIds, to_id \in PersonIds :
        /\ Cardinality(HeldFor(from_id, to_id)) <= 1
        /\ \A i \in HeldFor(from_id, to_id) :
              LET adds == AddsFor(from_id, to_id)
              IN  /\ adds # <<>>
                  /\ relationships[i].relationship = adds[Len(adds)].relationship
                  /\ relationships[i].notes = adds[Len(adds)].notes

\* a pair added twice with another label and other notes, the reverse pair
\* added after it
C30_Witness ==
    /\ Len(ops) = 3
    /\ ops[1].op = "add" /\ ops[2].op = "add" /\ ops[3].op = "add"
    /\ SamePair(ops[2], ops[1].from_id, ops[1].to_id)
    /\ ops[2].relationship # ops[1].relationship
    /\ ops[2].notes # ops[1].notes
    /\ SamePair(ops[3], ops[1].to_id, ops[1].from_id)
    /\ ops[1].from_id # ops[1].to_id
    /\ Len(relationships) = 2
    /\ relationships[1] = Relationship(ops[2].from_id, ops[2].to_id,
                                       ops[2].relationship, ops[2].notes)

\* reference: a pair is held exactly when the latest call that named it was
\* an add
HeldIffLatestCallAdds ==
    \A from_id \in PersonIds, to_id \in PersonIds :
        LET named == CallsFor(from_id, to_id)
        IN  (HeldFor(from_id, to_id) # {}) <=> (named # <<>> /\ named[Len(named)].op = "add")

\* reference: a removed pair added again is held with what the later add gave
ReaddedAfterRemove ==
    (Len(ops) = 3 /\ ops[1].op = "add" /\ ops[2].op = "remove" /\ ops[3].op = "add"
        /\ SamePair(ops[2], ops[1].from_id, ops[1].to_id)
        /\ SamePair(ops[3], ops[1].from_id, ops[1].to_id)) =>
        relationships = <<Relationship(ops[3].from_id, ops[3].to_id,
                                       ops[3].relationship, ops[3].notes)>>

====
